---- MODULE Spec2Model ----
(***************************************************************************)
(* Lazy Plugin Loader (obsidian-lazy-plugins): the startup scheduler of    *)
(* main.ts and the load-order resolver of settings.ts.  The repository     *)
(* holds several versions of main.ts; `variant` says which one runs.       *)
(***************************************************************************)
EXTENDS Integers, Sequences, FiniteSets, TLC

\* ------------------------------------------------------------------ bounds
MaxManual == 1      \* out-of-band changes of the host's state
MaxEdits == 1       \* changes made on the settings page
MaxRestarts == 2    \* restarts of the host after the first run

\* --------------------------------------------------------------- constants
None == "none"
\* the installed plugins
Units == {"a", "b"}
\* Object.values(app.plugins.manifests): the host's own order, before the sort
HostManifests == <<"b", "a">>
\* the rank of a unit's display name under localeCompare
NameRank(u) == IF u = "a" THEN 1 ELSE 2
\* the key order of Object.entries(this.settings.plugins)
KeyOrder == <<"a", "b">>

\* Object.values(LoadingMethod), in the enum's order
LoadingMethodValues == <<"disabled", "instant", "short", "long">>
LoadingMethod == {"disabled", "instant", "short", "long"}

\* the versions of main.ts in the repository
V_part002 == "part_002"    \* src/unnamed/part_002: the first version
V_part000 == "part_000"    \* src/unnamed/part_000:1-157: dual profiles, onunload restores
V_part001 == "part_001"    \* src/unnamed/part_001: configurable stagger, no onunload
V_main == "main"           \* src/src/main.ts: plugin groups
V_mobile == "part_000m"    \* src/unnamed/part_000:159-302: a startupMobile override per plugin
V_groups == "part_000g"    \* src/unnamed/part_000:304-516: the first version with plugin groups
\* the versions whose setPluginStartup looks the plugin's groups up
GroupVariants == {V_main, V_groups}
Variants == {V_part002, V_part000, V_part001, V_main}
\* the versions whose setPluginStartup switches on the startup type
ClassVariants == {V_part002, V_part000, V_part001}

\* DEFAULT_DEVICE_SETTINGS
DefaultShortDelaySeconds == 5
DefaultLongDelaySeconds == 15
DefaultDelayBetweenPlugins == 40
\* the stagger of the versions that have no delayBetweenPlugins setting
FixedStagger == 40
\* stands for a stored delayBetweenPlugins for which isNaN() is true
NotANumber == -1

VARIABLES
  variant,          \* which main.ts runs
  settings,         \* this.settings: the active profile
  disk,             \* what saveData last wrote
  manifests,        \* this.manifests: the sorted list of installed units
  enabledPlugins,   \* app.plugins.enabledPlugins: the host's persisted flag
  loaded,           \* units with app.plugins.plugins[id]._loaded
  pc,               \* where onload / onunload stands
  popIdx,           \* setInitialPluginsConfiguration's loop position
  tasks,            \* the invocations of setPluginStartup and of timer callbacks
  timers,           \* every setTimeout armed, with its state
  populatedFrom,    \* history: what setInitialPluginsConfiguration saw when it wrote an entry
  manualCount,      \* the out-of-band changes so far
  isMobile,         \* Platform.isMobile
  dropdowns,        \* the settings page: its state and the value each dropdown shows
  lastRun,          \* history: the runs of the host so far, and how the last one ended
  desktopOnly,      \* the installed units whose manifest says isDesktopOnly
  data,             \* this.data and data.json beside the active profile
  tab,              \* the SettingsTab: its pluginSettings and the handler in flight
  orderPlugins,     \* saveLoadOrder: the entries of settings.plugins, in key order
  toProcess,        \* saveLoadOrder: the queue
  total,            \* saveLoadOrder: the queue's first length
  count,            \* saveLoadOrder: the loop's counter
  loadOrder,        \* saveLoadOrder: the order built so far
  orderPc,          \* saveLoadOrder: where it stands
  savedLoadOrder    \* settings.loadOrder as last saved

schedVars == <<variant, settings, disk, manifests, enabledPlugins, loaded, pc, popIdx,
               tasks, timers, populatedFrom, manualCount, isMobile, dropdowns, lastRun,
               desktopOnly, data, tab>>

sessionVars == <<isMobile, dropdowns, lastRun, desktopOnly, data, tab>>

orderVars == <<orderPlugins, toProcess, total, count, loadOrder, orderPc, savedLoadOrder>>

vars == <<schedVars, orderVars>>

\* ---------------------------------------------------------------- features
\* onload builds this.manifests and runs setInitialPluginsConfiguration
HasManifests == variant # V_part002
\* the instant branch tests isRunning as well as isActiveOnStartup
InstantChecksRunning == variant # V_part002
\* a faulty reading of the delayed branch: a plain "else", in every version
DelayedChecksRunning_Never == FALSE

\* the delayed branch arms its timer under "else if (!isRunning)"
DelayedChecksRunning == variant \in {V_part001, V_main, V_groups}
\* the delayed branch awaits disablePluginAndSave before it arms its timer
DelayedDisablesFirst == variant = V_part002
\* the timer callback tests _loaded before it calls enablePlugin
TimerRechecks == variant # V_part002
\* onunload is defined: it clears pendingTimeouts and restores the delayed units
HasOnunload == variant \in {V_part000, V_mobile}
\* display() awaits loadSettings() before it builds the page
DisplayReloads == variant \in {V_part001, V_main}

\* data.dualConfigs is a setting: a profile per device
DualVariants == {V_part000, V_part001, V_main, V_groups}
\* the mobile profile is made with Object.assign({}, this.data.desktop), which
\* leaves the copy with the desktop profile's own plugins object
ShallowCopy == variant = V_part000
\* the SettingsTab takes this.lazyPlugin.settings.plugins in its constructor
\* (part_004:120); elsewhere display() or buildDom() takes it afresh
CapturedAtConstruction == variant = V_main

\* ---------------------------------------------------------------- helpers
Range(s) == {s[i] : i \in DOMAIN s}

RECURSIVE InsertByName(_, _)
InsertByName(s, u) ==
  IF s = <<>> THEN <<u>>
  ELSE IF NameRank(u) < NameRank(Head(s)) THEN <<u>> \o s
  ELSE <<Head(s)>> \o InsertByName(Tail(s), u)

\* .sort((a, b) => a.name.localeCompare(b.name))
RECURSIVE SortByName(_)
SortByName(s) == IF s = <<>> THEN <<>> ELSE InsertByName(SortByName(Tail(s)), Head(s))

\* this.manifests.findIndex(x => x.id === pluginId), 0-based; -1 when absent
FindIndex(s, u) ==
  IF u \in Range(s) THEN (CHOOSE i \in DOMAIN s : s[i] = u /\ \A j \in 1..(i - 1) : s[j] # u) - 1
  ELSE -1

\* a faulty classification that infers the type from the host's flag every time
getPluginStartup_HostOnly(u) ==
  IF settings.defaultStartupType # None THEN settings.defaultStartupType
  ELSE IF u \in enabledPlugins THEN "instant" ELSE "disabled"

\* a faulty classification that lets the profile's default overrule the entry
getPluginStartup_DefaultFirst(u) ==
  IF settings.defaultStartupType # None THEN settings.defaultStartupType
  ELSE IF settings.plugins[u].startupType # None THEN settings.plugins[u].startupType
  ELSE IF u \in enabledPlugins THEN "instant" ELSE "disabled"

\* a faulty classification that takes a plugin the host has enabled for instant
getPluginStartup_HostFirst(u) ==
  IF u \in enabledPlugins THEN "instant"
  ELSE IF settings.plugins[u].startupType # None THEN settings.plugins[u].startupType
  ELSE IF settings.defaultStartupType # None THEN settings.defaultStartupType
  ELSE "disabled"

\* getPluginStartup: the configured type, else the default, else the host's flag.
\* part_000:236-242 reads startupMobile first on a mobile device, and has no
\* step for the default.
getPluginStartup(u) ==
  IF variant = V_mobile /\ isMobile /\ settings.plugins[u].startupMobile # None
  THEN settings.plugins[u].startupMobile
  ELSE IF settings.plugins[u].startupType # None THEN settings.plugins[u].startupType
  ELSE IF variant # V_mobile /\ settings.defaultStartupType # None
       THEN settings.defaultStartupType
  ELSE IF u \in enabledPlugins THEN "instant" ELSE "disabled"

\* const stagger = isNaN(delayBetweenPlugins) ? 40 : delayBetweenPlugins
Stagger ==
  IF variant \in {V_part001, V_main, V_groups}
  THEN (IF settings.delayBetweenPlugins = NotANumber THEN 40 ELSE settings.delayBetweenPlugins)
  ELSE IF variant \in {V_part000, V_mobile} THEN FixedStagger
  ELSE 0

\* startupType === LoadingMethod.short ? shortDelaySeconds : longDelaySeconds
BaseSeconds(st) ==
  IF st = "short" THEN settings.shortDelaySeconds ELSE settings.longDelaySeconds

\* a faulty delay that leaves the stagger out
TimerDelay_NoStagger(u, secs) == secs * 1000

\* a faulty delay whose stagger runs against the list
TimerDelay_Reversed(u, secs) == secs * 1000 + (Len(manifests) - FindIndex(manifests, u)) * Stagger

\* a faulty delay that staggers by the place in settings.loadOrder
TimerDelay_ByLoadOrder(u, secs) == secs * 1000 + (FindIndex(savedLoadOrder, u) + 1) * Stagger

\* the second argument of setTimeout: seconds * 1000 + delay
TimerDelay(u, secs) == secs * 1000 + FindIndex(manifests, u) * Stagger

\* ----------------------------------------------------------------- groups
\* the keys settings.groups may hold: the indices of the default array, and names
GroupKeys == {"0", "1", "2", "3"} \cup LoadingMethod

\* PluginGroupSettings, as far as main.ts reads it
Group(enable, secs, autoAdd) ==
  [present |-> TRUE, enablePluginsDuringStartup |-> enable, startupDelaySeconds |-> secs,
   autoAddNewPlugins |-> autoAdd]

\* settings.groups[groupId] for a key the object does not hold
Undefined ==
  [present |-> FALSE, enablePluginsDuringStartup |-> FALSE, startupDelaySeconds |-> 0,
   autoAddNewPlugins |-> FALSE]

NoGroups == [k \in GroupKeys |-> Undefined]

\* createDefaultGroups: an array, so Object.assign({}, ...) files it under "0".."3"
createDefaultGroups(device) ==
  [k \in GroupKeys |->
     CASE k = "0" -> Group(TRUE, 0, device.defaultStartupType = "disabled")
       [] k = "1" -> Group(TRUE, device.shortDelaySeconds, device.defaultStartupType = "short")
       [] k = "2" -> Group(TRUE, device.longDelaySeconds, device.defaultStartupType = "long")
       [] k = "3" -> Group(FALSE, 0, device.defaultStartupType = "disabled")
       [] OTHER -> Undefined]

\* createDefaultPluginGroups of part_000:312, whose settings.ts is not in the
\* repository: one group per loading method, under the method's name, which is
\* what updatePluginSettings of that version writes as a groupId
createDefaultPluginGroups(device) ==
  [k \in GroupKeys |->
     CASE k = "disabled" -> Group(FALSE, 0, device.defaultStartupType = "disabled")
       [] k = "instant" -> Group(TRUE, 0, device.defaultStartupType = "instant")
       [] k = "short" -> Group(TRUE, device.shortDelaySeconds, device.defaultStartupType = "short")
       [] k = "long" -> Group(TRUE, device.longDelaySeconds, device.defaultStartupType = "long")
       [] OTHER -> Undefined]

\* Object.assign({}, createDefaultGroups(this.settings), this.settings.groups)
AssignGroups(defaults, stored) ==
  [k \in GroupKeys |-> IF stored[k].present THEN stored[k] ELSE defaults[k]]

\* an entry without groupIds: Object.assign skips an undefined source
NoGroupIds == <<>>

\* Object.assign([], Object.values(LoadingMethod), groupIds)
AssignIds(groupIds) ==
  LET n == IF Len(groupIds) > 4 THEN Len(groupIds) ELSE 4
  IN [i \in 1..n |-> IF i <= Len(groupIds) THEN groupIds[i] ELSE LoadingMethodValues[i]]

\* getPluginsGroups(pluginId), which also stores its result in the entry
getPluginsGroups(u) == AssignIds(settings.plugins[u].groupIds)

\* .map(groupId => this.settings?.groups[groupId])
MappedGroups(u) ==
  LET ids == getPluginsGroups(u) IN [i \in DOMAIN ids |-> settings.groups[ids[i]]]

\* .filter(group => group.enablePluginsDuringStartup)
EnabledGroups(u) == SelectSeq(MappedGroups(u), LAMBDA g : g.enablePluginsDuringStartup)

\* The filter reads a property of undefined when a group id is not a key of
\* settings.groups, and loadGroup.startupDelaySeconds does when no group is
\* left: either way setPluginStartup rejects with a TypeError.
GroupsThrow(u) ==
  \/ \E i \in DOMAIN MappedGroups(u) : ~MappedGroups(u)[i].present
  \/ EnabledGroups(u) = <<>>

\* .sort(group => group.startupDelaySeconds)[0].startupDelaySeconds: the
\* comparator is consistent only when it always returns 0, which leaves the
\* order alone; otherwise the order is implementation-defined.
LoadGroupDelays(u) ==
  LET gs == EnabledGroups(u)
  IN IF \A i \in DOMAIN gs : gs[i].startupDelaySeconds = 0
     THEN {gs[1].startupDelaySeconds}
     ELSE {gs[i].startupDelaySeconds : i \in DOMAIN gs}

\* ------------------------------------------------------- setPluginStartup
\* What one invocation does: the host calls it issues, each awaited before the
\* next, and whether it arms a timer (at once, or after its awaited call).
Plan(ops, armNow, armAfter) == [ops |-> ops, armNow |-> armNow, armAfter |-> armAfter]

NoPlan == Plan(<<>>, FALSE, FALSE)

\* a faulty disabled case that skips the call for a plugin that is already off
DisabledPlan_OnlyWhenOn(active, running) ==
  IF active \/ running THEN Plan(<<"disablePluginAndSave">>, FALSE, FALSE) ELSE NoPlan

\* case LoadingMethod.disabled
DisabledPlan(active, running) == Plan(<<"disablePluginAndSave">>, FALSE, FALSE)

\* case LoadingMethod.instant; main.ts: if (loadGroup.startupDelaySeconds == 0)
InstantPlan(active, running) ==
  IF variant = V_main THEN Plan(<<"enablePluginAndSave">>, FALSE, FALSE)
  ELSE IF ~active /\ (~InstantChecksRunning \/ ~running)
       THEN Plan(<<"enablePluginAndSave">>, FALSE, FALSE)
       ELSE NoPlan

\* the test that guards the disable-then-enable of a delayed plugin:
\* isActiveOnStartup, or in main.ts currentlyActive = isEnabled && isRunning
CurrentlyActive(active, running) ==
  IF variant = V_main THEN active /\ running ELSE active

\* case LoadingMethod.short / long; main.ts: the branches after the delay-0 test
DelayedPlan(active, running) ==
  IF CurrentlyActive(active, running)
  THEN Plan(<<"disablePluginAndSave", "enablePlugin">>, FALSE, FALSE)
  ELSE IF DelayedDisablesFirst THEN Plan(<<"disablePluginAndSave">>, FALSE, TRUE)
  ELSE IF DelayedChecksRunning /\ running THEN NoPlan
  ELSE Plan(<<>>, TRUE, FALSE)

\* the body of setPluginStartup for what it resolved (eff) and the flags it read
StartupPlan(eff, active, running) ==
  CASE eff = "disabled" -> DisabledPlan(active, running)
    [] eff = "instant" -> InstantPlan(active, running)
    [] eff = "delayed" -> DelayedPlan(active, running)
    [] OTHER -> NoPlan

\* what an invocation resolved before it branches
Resolution(st, eff, secs) == [st |-> st, eff |-> eff, secs |-> secs]

\* The resolutions one call may reach: the switch on the startup type, or in
\* main.ts the delay of groups[0] (none when the group lookup throws).
Resolutions(u, st) ==
  IF variant \in GroupVariants
  THEN IF GroupsThrow(u) THEN {Resolution(None, "threw", 0)}
       ELSE {Resolution(None, IF d = 0 THEN "instant" ELSE "delayed", d) : d \in LoadGroupDelays(u)}
  ELSE CASE st = "disabled" -> {Resolution(st, "disabled", 0)}
         [] st = "instant" -> {Resolution(st, "instant", 0)}
         [] st \in {"short", "long"} -> {Resolution(st, "delayed", BaseSeconds(st))}
         [] OTHER -> {Resolution(st, "none", 0)}

\* setTimeout(callback, seconds * 1000 + delay); pendingTimeouts.push(timeout)
NewTimer(u, r) ==
  [unit |-> u, st |-> r.st, secs |-> r.secs, index |-> FindIndex(manifests, u),
   delay |-> TimerDelay(u, r.secs), state |-> "pending"]

\* the record of one invocation: what it read on entry and what it has done
NewTask(u, src, r, plan) ==
  [unit |-> u, src |-> src, st |-> r.st, eff |-> r.eff, secs |-> r.secs,
   active |-> u \in enabledPlugins, running |-> u \in loaded,
   issued |-> IF plan.ops = <<>> THEN <<>> ELSE <<Head(plan.ops)>>,
   cont |-> IF plan.ops = <<>> THEN <<>> ELSE Tail(plan.ops),
   ndone |-> 0,
   armed |-> IF plan.armNow THEN 1 ELSE 0,
   armAfter |-> plan.armAfter,
   pc |-> IF r.eff = "threw" THEN "threw" ELSE IF plan.ops = <<>> THEN "done" ELSE "await"]

\* Invocations are named <<unit, "pass" | "timer" | "unload", n>>; a timer is
\* named <<unit, n>> after the invocation that armed it, and so is its callback.
EmptyFn == [x \in {} |-> None]

\* setPluginStartup up to its first await, on the pair <<tasks, timers>>
setPluginStartup(tt, u, src, n, r) ==
  LET plan == StartupPlan(r.eff, u \in enabledPlugins, u \in loaded)
  IN << tt[1] @@ (<<u, src, n>> :> NewTask(u, src, r, plan)),
        IF plan.armNow THEN tt[2] @@ (<<u, n>> :> NewTimer(u, r)) ELSE tt[2] >>

\* the startup type onload's call works with
PassType(u) == IF HasManifests THEN getPluginStartup(u) ELSE settings.plugins[u].startupType

\* this.manifests.forEach(plugin => this.setPluginStartup(plugin.id))
RECURSIVE ForEachStartup(_, _, _)
ForEachStartup(tt, list, pick) ==
  IF list = <<>> THEN tt
  ELSE ForEachStartup(setPluginStartup(tt, Head(list), "pass", 0, pick[Head(list)]),
                      Tail(list), pick)

\* ------------------------------------------------------------------- Init
\* an entry of settings.plugins as the code writes it: no loadAfter
PluginSettings(st, groupIds) ==
  [startupType |-> st, startupMobile |-> None, groupIds |-> groupIds, loadAfter |-> None]

DelayConfig(short, long, stagger) == [short |-> short, long |-> long, stagger |-> stagger]

\* the stored delay settings the model runs with: the defaults everywhere, and
\* where delayBetweenPlugins is a setting also a custom and an unparsable one
GlobalConfigs(v) ==
  {DelayConfig(DefaultShortDelaySeconds, DefaultLongDelaySeconds, DefaultDelayBetweenPlugins)}
  \cup (IF v = V_part001 THEN {DelayConfig(2, 3, 7), DelayConfig(2, 3, NotANumber)} ELSE {})

\* the stored defaultStartupType: a default only matters to a unit without an entry
DefaultTypes(v, types) ==
  IF v # V_part002 /\ \E u \in Units : types[u] = None THEN {None, "short"} ELSE {None}

\* The stored groups and groupIds the model runs with, as pairs.  Without stored
\* groups the names of the loading methods are no keys of settings.groups, so
\* only an entry whose four groupIds are indices gets past the group lookup.
StoredGroupings(v) ==
  IF v = V_main
  THEN { <<NoGroups, NoGroupIds>>,
         <<NoGroups, <<"0", "1", "3", "3">> >>,
         <<NoGroups, <<"1", "1", "3", "3">> >>,
         <<NoGroups, <<"3", "3", "3", "3">> >> }
  ELSE { <<NoGroups, NoGroupIds>> }

DeviceSettings(g, dflt, types, ids, groups) ==
  [shortDelaySeconds |-> g.short, longDelaySeconds |-> g.long,
   delayBetweenPlugins |-> g.stagger, defaultStartupType |-> dflt,
   plugins |-> [u \in Units |-> PluginSettings(types[u], ids)],
   groups |-> groups]

\* what data.json may hold when version v of the plugin starts
Disks(v) ==
  UNION { { DeviceSettings(g, dflt, types, gi[2], gi[1]) :
              g \in GlobalConfigs(v), dflt \in DefaultTypes(v, types),
              gi \in StoredGroupings(v) } :
          types \in [Units -> LoadingMethod \cup {None}] }

\* DEFAULT_DEVICE_SETTINGS
DefaultDeviceSettings ==
  DeviceSettings(DelayConfig(DefaultShortDelaySeconds, DefaultLongDelaySeconds,
                             DefaultDelayBetweenPlugins),
                 None, [u \in Units |-> None], NoGroupIds, NoGroups)

\* saveLoadOrder has not been called; settings.plugins holds the entries ps
OrderIdle(ps) ==
  /\ orderPlugins = ps
  /\ toProcess = <<>>
  /\ total = 0
  /\ count = 0
  /\ loadOrder = <<>>
  /\ orderPc = "idle"
  /\ savedLoadOrder = <<>>

\* the settings page before display() has run
NoDropdowns ==
  [state |-> "closed",
   values |-> [u \in Units |-> [shown |-> FALSE, value |-> None, enabled |-> FALSE]]]

\* the first run of the host: no run has ended
NoRun == [restarts |-> 0, enabled |-> {}, passDone |-> {}, manual |-> 0, clean |-> TRUE]

\* one global profile: dualConfigs is off, so this.settings is this.data.desktop
\* and the fields for a second profile are not in use
NoData ==
  [dualConfigs |-> FALSE, mobileStored |-> FALSE, desktop |-> DefaultDeviceSettings,
   stored |-> DefaultDeviceSettings, copied |-> FALSE, shared |-> FALSE]

\* the SettingsTab as constructed: pluginSettings is the active profile's
\* plugins, and no handler of the page is running
NoTab ==
  [live |-> TRUE, plugins |-> DefaultDeviceSettings.plugins, edits |-> 0,
   edit |-> [kind |-> None, unit |-> None, value |-> None, pc |-> "idle"]]

\* a desktop session with one global profile, the first run of the host, the
\* settings page closed
SessionIdle ==
  /\ isMobile = FALSE
  /\ dropdowns = NoDropdowns
  /\ lastRun = NoRun
  /\ desktopOnly = {}
  /\ data = NoData
  /\ tab = NoTab

Init ==
  /\ variant \in Variants
  /\ disk \in Disks(variant)
  /\ settings = DefaultDeviceSettings
  /\ manifests = <<>>
  /\ enabledPlugins \in SUBSET Units
  /\ loaded \in SUBSET Units
  /\ pc = "start"
  /\ popIdx = 1
  /\ tasks = EmptyFn
  /\ timers = EmptyFn
  /\ populatedFrom = [u \in Units |-> None]
  /\ manualCount = 0
  /\ SessionIdle
  /\ OrderIdle(<<>>)

\* ----------------------------------------------------------------- onload
\* loadSettings: the stored profile over the defaults; main.ts adds the groups
loadSettings(stored) ==
  CASE variant = V_main ->
         [stored EXCEPT !.groups = AssignGroups(createDefaultGroups(stored), stored.groups)]
    [] variant = V_groups ->
         [stored EXCEPT !.groups = AssignGroups(createDefaultPluginGroups(stored), stored.groups)]
    [] OTHER -> stored

\* if (this.data.dualConfigs && Platform.isMobile)
ActiveMobile == variant \in DualVariants /\ data.dualConfigs /\ isMobile

\* the stored profile loadSettings makes this.settings of: the device's own,
\* or for a mobile device without one (!this.data.mobile) the desktop's
ActiveStored == IF ActiveMobile /\ ~data.mobileStored THEN data.stored ELSE disk

\* this.data after loadSettings, beside the active profile: the desktop profile
\* as stored, whether the mobile profile was made as a copy of it just now, and
\* whether that copy shares its plugins
LoadedData ==
  IF ActiveMobile
  THEN [data EXCEPT !.desktop = data.stored,
                    !.copied = ~data.mobileStored,
                    !.shared = ~data.mobileStored /\ ShallowCopy]
  ELSE data

\* a write to this.settings.plugins as this.data.desktop sees it
WithPlugins(ps) == IF data.shared THEN [data EXCEPT !.desktop.plugins = ps] ELSE data

\* saveData(this.data) has written both profiles
SavedData ==
  IF ActiveMobile THEN [data EXCEPT !.mobileStored = TRUE, !.stored = data.desktop] ELSE data

\* .filter(plugin => ... !(Platform.isMobile && plugin.isDesktopOnly))
PlatformManifests == SelectSeq(HostManifests, LAMBDA u : ~(isMobile /\ u \in desktopOnly))

\* await this.loadSettings(); this.manifests = ...filter(...).sort(...)
OnloadLoadSettings ==
  /\ pc = "start"
  /\ settings' = loadSettings(ActiveStored)
  /\ data' = LoadedData
  /\ manifests' = IF HasManifests THEN SortByName(PlatformManifests) ELSE <<>>
  /\ pc' = IF HasManifests THEN "populate" ELSE "pass"
  /\ UNCHANGED <<isMobile, dropdowns, lastRun, desktopOnly, tab, orderVars, variant, disk, enabledPlugins, loaded, popIdx, tasks, timers,
                 populatedFrom, manualCount>>

\* updatePluginSettings, up to its await: the entry is replaced as a whole;
\* part_000:272-281 keeps an entry there is and sets the field of the platform;
\* part_000:471-478 has no second parameter and writes what getPluginStartup
\* returns for the unit
updatePluginSettings(u, st) ==
  IF variant = V_mobile
  THEN LET old == IF settings.plugins[u].startupType = None
                  THEN PluginSettings(st, NoGroupIds)
                  ELSE settings.plugins[u]
       IN [settings EXCEPT !.plugins[u] =
             IF isMobile THEN [old EXCEPT !.startupMobile = st]
             ELSE [old EXCEPT !.startupType = st]]
  ELSE LET written == IF variant = V_groups THEN getPluginStartup(u) ELSE st
       IN [settings EXCEPT !.plugins[u] =
             PluginSettings(written, CASE variant = V_main -> LoadingMethodValues
                                       [] variant = V_groups -> <<written>>
                                       [] OTHER -> NoGroupIds)]

\* a faulty scan that finds every unit configured
Unconfigured_Nothing == {}

\* the indices from popIdx on whose unit has no startupType yet
Unconfigured ==
  {i \in popIdx..Len(manifests) : settings.plugins[manifests[i]].startupType = None}

\* what getPluginStartup falls back on for a unit without an entry
FallbackSource(u) ==
  IF settings.defaultStartupType # None THEN "default"
  ELSE IF u \in enabledPlugins THEN "enabled" ELSE "notEnabled"

\* the type setInitialPluginsConfiguration writes for a unit without an entry;
\* part_000:261-264 spells the default and the host's flag out itself
InitialType(u) ==
  IF variant = V_mobile
  THEN IF settings.defaultStartupType # None THEN settings.defaultStartupType
       ELSE IF u \in enabledPlugins THEN "instant" ELSE "disabled"
  ELSE getPluginStartup(u)

\* setInitialPluginsConfiguration, from where it stands to its next await
PopulateNext ==
  /\ pc = "populate"
  /\ IF Unconfigured = {}
     THEN /\ pc' = "pass"
          /\ UNCHANGED <<settings, data, popIdx, populatedFrom>>
     ELSE LET i == CHOOSE i \in Unconfigured : \A j \in Unconfigured : i <= j
              u == manifests[i]
          IN /\ settings' = updatePluginSettings(u, InitialType(u))
             /\ data' = WithPlugins(settings'.plugins)
             /\ populatedFrom' = [populatedFrom EXCEPT ![u] = FallbackSource(u)]
             /\ popIdx' = i
             /\ pc' = "saving"
  /\ UNCHANGED <<isMobile, dropdowns, lastRun, desktopOnly, tab, orderVars, variant, disk, manifests, enabledPlugins, loaded, tasks, timers,
                 manualCount>>

\* await this.saveSettings() returns: saveData has written this.data
PopulateSaved ==
  /\ pc = "saving"
  /\ disk' = settings
  /\ data' = SavedData
  /\ popIdx' = popIdx + 1
  /\ pc' = "populate"
  /\ UNCHANGED <<isMobile, dropdowns, lastRun, desktopOnly, tab, orderVars, variant, settings, manifests, enabledPlugins, loaded, tasks, timers,
                 populatedFrom, manualCount>>

\* the units onload walks: this.manifests, or the entries of settings.plugins
\* whose plugin is installed
PassList ==
  IF HasManifests THEN manifests
  ELSE SelectSeq(KeyOrder, LAMBDA u : settings.plugins[u].startupType # None)

\* getPluginsGroups has stored the merged groupIds in every entry it was asked for
StoreGroupIds(list) ==
  IF variant \in GroupVariants
  THEN [settings EXCEPT !.plugins =
          [u \in Units |-> IF u \in Range(list)
                           THEN [settings.plugins[u] EXCEPT !.groupIds = getPluginsGroups(u)]
                           ELSE settings.plugins[u]]]
  ELSE settings

\* the forEach over the units that ends onload: each call runs to its first await
StartupPass ==
  /\ pc = "pass"
  /\ \E pick \in [Units -> UNION {Resolutions(u, PassType(u)) : u \in Units}] :
       /\ \A u \in Units : pick[u] \in Resolutions(u, PassType(u))
       /\ LET tt == ForEachStartup(<<tasks, timers>>, PassList, pick)
          IN /\ tasks' = tt[1]
             /\ timers' = tt[2]
  /\ settings' = StoreGroupIds(PassList)
  /\ pc' = "loaded"
  /\ UNCHANGED <<sessionVars, orderVars, variant, disk, manifests, enabledPlugins, loaded, popIdx,
                 populatedFrom, manualCount>>

\* ------------------------------------------------------------- host calls
\* the host's persisted flag after a call completes
EnabledAfter(op, u) ==
  CASE op = "enablePluginAndSave" -> enabledPlugins \cup {u}
    [] op = "disablePluginAndSave" -> enabledPlugins \ {u}
    [] OTHER -> enabledPlugins

\* the host's running units after a call completes
LoadedAfter(op, u) ==
  CASE op \in {"enablePluginAndSave", "enablePlugin"} -> loaded \cup {u}
    [] op \in {"disablePluginAndSave", "disablePlugin"} -> loaded \ {u}
    [] OTHER -> loaded

\* onunload's loop body for one plugin
RestorePlan == Plan(<<"disablePlugin", "enablePluginAndSave">>, FALSE, FALSE)

\* the plugins onunload's loop stops at: manifests with a short or long entry
\* (part_000:294-295 walks the entries of settings.plugins instead)
RestoreList ==
  SelectSeq(IF variant = V_mobile THEN KeyOrder ELSE manifests,
            LAMBDA u : settings.plugins[u].startupType \in {"short", "long"})

\* the loop's iteration for the list's entry at position i, if there is one
RestoreFrom(i) ==
  IF i \in DOMAIN RestoreList
  THEN LET u == RestoreList[i]
       IN <<u, "unload", 0>> :>
            NewTask(u, "unload", Resolution(settings.plugins[u].startupType, "restore", 0),
                    RestorePlan)
  ELSE EmptyFn

\* An awaited host call of invocation i completes; the invocation runs on to
\* its next await or to its end.
HostComplete(i) ==
  /\ tasks[i].pc = "await"
  /\ LET t == tasks[i]
         op == t.issued[Len(t.issued)]
         last == t.cont = <<>>
         arm == last /\ t.armAfter
         next == IF last /\ t.src = "unload"
                 THEN RestoreFrom(FindIndex(RestoreList, t.unit) + 2)
                 ELSE EmptyFn
     IN /\ enabledPlugins' = EnabledAfter(op, t.unit)
        /\ loaded' = LoadedAfter(op, t.unit)
        /\ tasks' = [tasks EXCEPT ![i] =
             [t EXCEPT !.ndone = @ + 1,
                       !.issued = IF last THEN @ ELSE Append(@, Head(t.cont)),
                       !.cont = IF last THEN <<>> ELSE Tail(@),
                       !.armed = IF arm THEN @ + 1 ELSE @,
                       !.pc = IF last THEN "done" ELSE "await"]] @@ next
        /\ timers' = IF arm
                     THEN timers @@ (<<t.unit, i[3]>> :> NewTimer(t.unit, Resolution(t.st, t.eff, t.secs)))
                     ELSE timers
  /\ UNCHANGED <<sessionVars, orderVars, variant, settings, disk, manifests, pc, popIdx, populatedFrom, manualCount>>

\* a faulty callback that enables the plugin for good
TimerPlan_Persisting(running) ==
  IF TimerRechecks /\ running THEN NoPlan
  ELSE Plan(<<"enablePluginAndSave">>, FALSE, FALSE)

\* what a timer's callback issues when it fires
TimerPlan(running) ==
  IF TimerRechecks /\ running THEN NoPlan
  ELSE Plan(<<"enablePlugin">>, FALSE, FALSE)

\* a pending timer fires: the callback of setTimeout runs to its await
TimerFire(k) ==
  /\ timers[k].state = "pending"
  /\ LET u == timers[k].unit
         r == Resolution(timers[k].st, "callback", timers[k].secs)
     IN tasks' = tasks @@ (<<u, "timer", k[2]>> :> NewTask(u, "timer", r, TimerPlan(u \in loaded)))
  /\ timers' = [timers EXCEPT ![k].state = "fired"]
  /\ UNCHANGED <<sessionVars, orderVars, variant, settings, disk, manifests, enabledPlugins, loaded, pc, popIdx,
                 populatedFrom, manualCount>>

\* The host's state changes out of band: the user switches a plugin on or off
\* in Obsidian's own plugin page.
HostManual(u, how) ==
  /\ manualCount < MaxManual
  /\ manualCount' = manualCount + 1
  /\ enabledPlugins' = IF how = "on" THEN enabledPlugins \cup {u} ELSE enabledPlugins \ {u}
  /\ loaded' = IF how = "on" THEN loaded \cup {u} ELSE loaded \ {u}
  /\ UNCHANGED <<sessionVars, orderVars, variant, settings, disk, manifests, pc, popIdx, tasks, timers,
                 populatedFrom>>

\* --------------------------------------------------------------- onunload
\* pendingTimeouts.forEach(timeout => clearTimeout(timeout))
ClearTimeouts ==
  [k \in DOMAIN timers |->
     IF timers[k].state = "pending" THEN [timers[k] EXCEPT !.state = "cleared"] ELSE timers[k]]

\* The plugin is unloaded (disabled, updated or removed).  Only part_000 defines
\* onunload; elsewhere the host's unload runs nothing of the plugin's, and the
\* timers it armed with setTimeout stay armed.
Unload ==
  /\ pc = "loaded"
  /\ pc' = "unloaded"
  /\ timers' = IF HasOnunload THEN ClearTimeouts ELSE timers
  /\ tasks' = IF HasOnunload THEN tasks @@ RestoreFrom(1) ELSE tasks
  /\ UNCHANGED <<sessionVars, orderVars, variant, settings, disk, manifests, enabledPlugins, loaded, popIdx,
                 populatedFrom, manualCount>>

\* ---------------------------------------------------------- settings page
\* what one dropdown of the page shows, and the host's flag when it was built
Dropdown(shown, value, enabled) == [shown |-> shown, value |-> value, enabled |-> enabled]

\* buildDom / display: dropdown.setValue(this.lazyPlugin.getPluginStartup(plugin.id))
DropdownValues ==
  [u \in Units |->
     IF u \in Range(manifests)
     THEN Dropdown(TRUE, getPluginStartup(u), u \in enabledPlugins)
     ELSE Dropdown(FALSE, None, FALSE)]

\* display() is called: where it awaits loadSettings() it stops there, elsewhere
\* it builds the page at once
DisplayOpen ==
  /\ pc = "loaded"
  /\ dropdowns.state = "closed"
  /\ dropdowns' = IF DisplayReloads THEN [dropdowns EXCEPT !.state = "loading"]
                  ELSE [state |-> "shown", values |-> DropdownValues]
  /\ UNCHANGED <<orderVars, variant, settings, disk, manifests, enabledPlugins, loaded, pc,
                 popIdx, tasks, timers, populatedFrom, manualCount, isMobile, lastRun,
                 desktopOnly, data, tab>>

\* loadSettings() has returned with what data.json holds; buildDom() follows.
\* this.settings is a new object now: a pluginSettings taken in the
\* constructor is left with the plugins of the old one.
DisplayBuild ==
  /\ dropdowns.state = "loading"
  /\ settings' = loadSettings(ActiveStored)
  /\ data' = LoadedData
  /\ tab' = IF CapturedAtConstruction
            THEN [tab EXCEPT !.live = FALSE, !.plugins = settings.plugins]
            ELSE tab
  /\ UNCHANGED <<orderVars, variant, disk, manifests, enabledPlugins, loaded, pc,
                 popIdx, tasks, timers, populatedFrom, manualCount, isMobile, lastRun,
                 desktopOnly>>
  /\ dropdowns' = [state |-> "shown", values |-> DropdownValues']

\* a dropdown of the plugin list is changed to another value: onChange runs
\* updatePluginSettings up to its await of saveSettings
DropdownChange(u, value) ==
  /\ dropdowns.state = "shown"
  /\ dropdowns.values[u].shown
  /\ dropdowns.values[u].value # value
  /\ tab.edit.pc # "saving"
  /\ tab.edits < MaxEdits
  /\ settings' = updatePluginSettings(u, value)
  /\ data' = WithPlugins(settings'.plugins)
  /\ dropdowns' = [dropdowns EXCEPT !.values[u].value = value]
  /\ tab' = [tab EXCEPT !.edits = @ + 1,
                        !.edit = [kind |-> "one", unit |-> u, value |-> value, pc |-> "saving"]]
  /\ UNCHANGED <<orderVars, variant, disk, manifests, enabledPlugins, loaded, pc, popIdx, tasks,
                 timers, populatedFrom, manualCount, isMobile, lastRun, desktopOnly>>

\* "Set the delay for all plugins at once" is changed: pluginSettings[plugin.id]
\* = { startupType: value } for every unit of the list, every dropdown is set
\* to the value, and saveSettings is awaited.  The write reaches this.settings
\* when pluginSettings is still the plugins of this.settings.
SetAll(value) ==
  /\ dropdowns.state = "shown"
  /\ tab.edit.pc # "saving"
  /\ tab.edits < MaxEdits
  /\ LET old == IF tab.live THEN settings.plugins ELSE tab.plugins
         new == [u \in Units |->
                   IF u \in Range(manifests) THEN PluginSettings(value, NoGroupIds) ELSE old[u]]
         edit == [kind |-> "all", unit |-> None, value |-> value, pc |-> "saving"]
     IN IF tab.live
        THEN /\ settings' = [settings EXCEPT !.plugins = new]
             /\ data' = WithPlugins(new)
             /\ tab' = [tab EXCEPT !.edits = @ + 1, !.edit = edit]
        ELSE /\ tab' = [tab EXCEPT !.edits = @ + 1, !.edit = edit, !.plugins = new]
             /\ UNCHANGED <<settings, data>>
  /\ dropdowns' = [dropdowns EXCEPT !.values =
                     [u \in Units |-> IF dropdowns.values[u].shown
                                      THEN [dropdowns.values[u] EXCEPT !.value = value]
                                      ELSE dropdowns.values[u]]]
  /\ UNCHANGED <<orderVars, variant, disk, manifests, enabledPlugins, loaded, pc, popIdx, tasks,
                 timers, populatedFrom, manualCount, isMobile, lastRun, desktopOnly>>

\* saveSettings has returned to the handler of the page: saveData has written
\* this.data.  The handler of a plugin's dropdown goes on to call
\* setPluginStartup for the plugin, without awaiting it.
EditSaved ==
  /\ tab.edit.pc = "saving"
  /\ tab.edit.kind \in {"one", "all"}
  /\ disk' = settings
  /\ data' = SavedData
  /\ tab' = [tab EXCEPT !.edit.pc = "done"]
  /\ IF tab.edit.kind = "one"
     THEN LET u == tab.edit.unit
          IN /\ \E r \in Resolutions(u, PassType(u)) :
                  LET tt == setPluginStartup(<<tasks, timers>>, u, "edit", tab.edits, r)
                  IN tasks' = tt[1] /\ timers' = tt[2]
             /\ settings' = StoreGroupIds(<<u>>)
     ELSE UNCHANGED <<settings, tasks, timers>>
  /\ UNCHANGED <<orderVars, variant, manifests, enabledPlugins, loaded, pc, popIdx,
                 populatedFrom, manualCount, isMobile, dropdowns, lastRun, desktopOnly>>

Next ==
  \/ OnloadLoadSettings
  \/ PopulateNext
  \/ PopulateSaved
  \/ StartupPass
  \/ \E i \in DOMAIN tasks : HostComplete(i)
  \/ \E k \in DOMAIN timers : TimerFire(k)
  \/ \E u \in Units, how \in {"on", "off"} : HostManual(u, how)
  \/ Unload

Spec == Init /\ [][Next]_vars

\* ------------------------------------------------- classification alone
\* the stored profiles the classification is run on: every pair of entries,
\* with and without a default, and in part_000:159-302 with mobile overrides
StartupTypeDisks(v) ==
  { [DeviceSettings(DelayConfig(DefaultShortDelaySeconds, DefaultLongDelaySeconds,
                                DefaultDelayBetweenPlugins),
                    dflt, types, NoGroupIds, NoGroups)
       EXCEPT !.plugins = [u \in Units |->
                 [@[u] EXCEPT !.startupMobile = IF types[u] = None THEN None ELSE mob[u]]]] :
      types \in [Units -> LoadingMethod \cup {None}],
      dflt \in {None, "disabled", "short"},
      mob \in [Units -> IF v = V_mobile THEN {None, "instant", "long"} ELSE {None}] }

\* onload has not run; the device is a desktop or, for part_000:159-302, a phone
InitStartupType ==
  /\ variant \in {V_part001, V_mobile}
  /\ isMobile \in (IF variant = V_mobile THEN BOOLEAN ELSE {FALSE})
  /\ disk \in StartupTypeDisks(variant)
  /\ settings = DefaultDeviceSettings
  /\ manifests = <<>>
  /\ enabledPlugins \in SUBSET Units
  /\ loaded = enabledPlugins
  /\ pc = "start"
  /\ popIdx = 1
  /\ tasks = EmptyFn
  /\ timers = EmptyFn
  /\ populatedFrom = [u \in Units |-> None]
  /\ manualCount = 0
  /\ dropdowns = NoDropdowns
  /\ lastRun = NoRun
  /\ desktopOnly = {}
  /\ data = NoData
  /\ tab = NoTab
  /\ OrderIdle(<<>>)

\* onload, the host calls and timers it leaves behind, and the settings page
NextStartupType ==
  \/ OnloadLoadSettings
  \/ PopulateNext
  \/ PopulateSaved
  \/ StartupPass
  \/ \E i \in DOMAIN tasks : HostComplete(i)
  \/ \E k \in DOMAIN timers : TimerFire(k)
  \/ DisplayOpen
  \/ DisplayBuild

SpecStartupType == InitStartupType /\ [][NextStartupType]_vars

\* the versions that define onunload, on the stored profiles of the
\* classification without a default type; part_000:159-302 on a desktop or a phone
InitUnload ==
  /\ variant \in {V_part000, V_mobile}
  /\ isMobile \in (IF variant = V_mobile THEN BOOLEAN ELSE {FALSE})
  /\ disk \in {d \in StartupTypeDisks(variant) : d.defaultStartupType = None}
  /\ settings = DefaultDeviceSettings
  /\ manifests = <<>>
  /\ enabledPlugins \in SUBSET Units
  /\ loaded = enabledPlugins
  /\ pc = "start"
  /\ popIdx = 1
  /\ tasks = EmptyFn
  /\ timers = EmptyFn
  /\ populatedFrom = [u \in Units |-> None]
  /\ manualCount = 0
  /\ dropdowns = NoDropdowns
  /\ lastRun = NoRun
  /\ desktopOnly = {}
  /\ data = NoData
  /\ tab = NoTab
  /\ OrderIdle(<<>>)

SpecUnload == InitUnload /\ [][Next]_vars

\* ---------------------------------------------------------------- restarts
\* every invocation has returned and no timer is left to fire
Quiescent ==
  /\ pc \in {"loaded", "unloaded"}
  /\ \A i \in DOMAIN tasks : tasks[i].pc \in {"done", "threw"}
  /\ \A k \in DOMAIN timers : timers[k].state # "pending"

\* the out-of-band changes up to the start of this run
ManualBefore == lastRun.manual

\* how a run ended: the host's flags, the units whose call of the startup pass
\* had returned, the out-of-band changes so far, and whether this run and the
\* ones before it had each come to rest untouched by any
RunEnd ==
  [restarts |-> lastRun.restarts + 1,
   enabled |-> enabledPlugins,
   passDone |-> {u \in Units : <<u, "pass", 0>> \in DOMAIN tasks
                                 /\ tasks[<<u, "pass", 0>>].pc = "done"},
   manual |-> manualCount,
   clean |-> lastRun.clean /\ Quiescent /\ manualCount = ManualBefore]

\* The host is quit and started again.  The plugin's memory, its pending calls
\* and its timers are gone; data.json and the host's persisted flags stay, and
\* the host starts every plugin whose flag is on before onload runs.
Restart ==
  /\ pc # "start"
  /\ lastRun.restarts < MaxRestarts
  /\ lastRun' = RunEnd
  /\ settings' = DefaultDeviceSettings
  /\ manifests' = <<>>
  /\ loaded' = enabledPlugins
  /\ pc' = "start"
  /\ popIdx' = 1
  /\ tasks' = EmptyFn
  /\ timers' = EmptyFn
  /\ populatedFrom' = [u \in Units |-> None]
  /\ dropdowns' = NoDropdowns
  /\ tab' = NoTab
  /\ data' = [data EXCEPT !.desktop = DefaultDeviceSettings, !.copied = FALSE, !.shared = FALSE]
  /\ UNCHANGED <<orderVars, variant, disk, enabledPlugins, manualCount, isMobile, desktopOnly>>

\* the stored profiles of part_001 with the default delays
RestartDisks ==
  {d \in Disks(V_part001) : /\ d.shortDelaySeconds = DefaultShortDelaySeconds
                            /\ d.delayBetweenPlugins = DefaultDelayBetweenPlugins}

\* part_001 is enabled for the first time, in a running host
InitRestart ==
  /\ variant = V_part001
  /\ disk \in RestartDisks
  /\ settings = DefaultDeviceSettings
  /\ manifests = <<>>
  /\ enabledPlugins \in SUBSET Units
  /\ loaded \in SUBSET Units
  /\ pc = "start"
  /\ popIdx = 1
  /\ tasks = EmptyFn
  /\ timers = EmptyFn
  /\ populatedFrom = [u \in Units |-> None]
  /\ manualCount = 0
  /\ SessionIdle
  /\ OrderIdle(<<>>)

NextRestart ==
  \/ Next
  \/ Restart

SpecRestart == InitRestart /\ [][NextRestart]_vars

\* ------------------------------------------------------ rejected host calls
\* a faulty failure that takes every invocation still waiting down with it
AfterReject_Aborting(i) ==
  [j \in DOMAIN tasks |->
     IF tasks[j].pc = "await" THEN [tasks[j] EXCEPT !.pc = "rejected"] ELSE tasks[j]]

\* the invocations after the awaited call of invocation i has rejected: the
\* await throws, nothing catches it, and the invocation ends where it stands
AfterReject(i) == [tasks EXCEPT ![i].pc = "rejected"]

\* An awaited host call of invocation i rejects.  What the host had done of the
\* call by then is the host's business: nothing, or all of it.
HostReject(i) ==
  /\ tasks[i].pc = "await"
  /\ tasks' = AfterReject(i)
  /\ \E acted \in BOOLEAN :
       LET t == tasks[i]
           op == t.issued[Len(t.issued)]
       IN /\ enabledPlugins' = IF acted THEN EnabledAfter(op, t.unit) ELSE enabledPlugins
          /\ loaded' = IF acted THEN LoadedAfter(op, t.unit) ELSE loaded
  /\ UNCHANGED <<sessionVars, orderVars, variant, settings, disk, manifests, pc, popIdx, timers,
                 populatedFrom, manualCount>>

NextReject ==
  \/ Next
  \/ \E i \in DOMAIN tasks : HostReject(i)

\* part_001 on a host whose enable and disable calls may fail
SpecReject == InitRestart /\ [][NextReject]_vars

\* ------------------------------------------------------- a mobile device
\* The plugin starts on a mobile device where some of the installed units are
\* desktop-only.  The host does not run those, whatever their persisted flag
\* says; data.json may hold entries for them, written on a desktop.
InitPlatform ==
  /\ variant \in {V_part002, V_mobile, V_part001}
  /\ isMobile = TRUE
  /\ desktopOnly \in SUBSET Units
  /\ disk \in Disks(variant)
  /\ settings = DefaultDeviceSettings
  /\ manifests = <<>>
  /\ enabledPlugins \in SUBSET Units
  /\ loaded = enabledPlugins \ desktopOnly
  /\ pc = "start"
  /\ popIdx = 1
  /\ tasks = EmptyFn
  /\ timers = EmptyFn
  /\ populatedFrom = [u \in Units |-> None]
  /\ manualCount = 0
  /\ dropdowns = NoDropdowns
  /\ lastRun = NoRun
  /\ data = NoData
  /\ tab = NoTab
  /\ OrderIdle(<<>>)

SpecPlatform == InitPlatform /\ [][Next]_vars

\* ------------------------------------------------------------ two profiles
\* A mobile device with dualConfigs on.  data.json holds the desktop profile
\* and holds a mobile profile or none; part_000 and part_001 differ in how
\* they copy the one to make the other.
InitDual ==
  /\ variant \in {V_part000, V_part001}
  /\ isMobile = TRUE
  /\ desktopOnly = {}
  /\ \E stored \in {d \in Disks(variant) : /\ d.shortDelaySeconds = DefaultShortDelaySeconds
                                         /\ d.delayBetweenPlugins = DefaultDelayBetweenPlugins},
        mobileStored \in BOOLEAN :
       /\ data = [NoData EXCEPT !.dualConfigs = TRUE, !.mobileStored = mobileStored,
                                !.stored = stored]
       /\ disk \in (IF mobileStored
                    THEN {DefaultDeviceSettings,
                          [DefaultDeviceSettings EXCEPT !.plugins["a"].startupType = "long"]}
                    ELSE {DefaultDeviceSettings})
  /\ settings = DefaultDeviceSettings
  /\ manifests = <<>>
  /\ enabledPlugins \in SUBSET Units
  /\ loaded = enabledPlugins
  /\ pc = "start"
  /\ popIdx = 1
  /\ tasks = EmptyFn
  /\ timers = EmptyFn
  /\ populatedFrom = [u \in Units |-> None]
  /\ manualCount = 0
  /\ dropdowns = NoDropdowns
  /\ lastRun = NoRun
  /\ tab = NoTab
  /\ OrderIdle(<<>>)

SpecDual == InitDual /\ [][NextStartupType]_vars

\* ------------------------------------------------------------ the stagger
\* the stored profiles the stagger is run on: both units short or long, by
\* their entry or for want of one by the default, with the delay settings of
\* GlobalConfigs and, where delayBetweenPlugins is a setting, also with a
\* stored 0
StaggerDisks(v) ==
  { DeviceSettings(g, IF \E u \in Units : types[u] = None THEN "long" ELSE None,
                   types, NoGroupIds, NoGroups) :
      g \in GlobalConfigs(v) \cup (IF v = V_part001 THEN {DelayConfig(2, 3, 0)} ELSE {}),
      types \in [Units -> {None, "short", "long"}] }

InitStagger ==
  /\ variant \in {V_part000, V_part001}
  /\ disk \in StaggerDisks(variant)
  /\ settings = DefaultDeviceSettings
  /\ manifests = <<>>
  /\ enabledPlugins \in SUBSET Units
  /\ loaded \in SUBSET Units
  /\ pc = "start"
  /\ popIdx = 1
  /\ tasks = EmptyFn
  /\ timers = EmptyFn
  /\ populatedFrom = [u \in Units |-> None]
  /\ manualCount = 0
  /\ SessionIdle
  /\ OrderIdle(<<>>)

SpecStagger == InitStagger /\ [][Next]_vars

\* -------------------------------------------------------- groups at work
\* stored groups under the names of the loading methods, as loadSettings left
\* them in data.json; new plugins are to join the group "short"
GroupsStored ==
  [k \in GroupKeys |->
     CASE k = "disabled" -> Group(FALSE, 0, FALSE)
       [] k = "instant" -> Group(TRUE, 0, FALSE)
       [] k = "short" -> Group(TRUE, DefaultShortDelaySeconds, TRUE)
       [] k = "long" -> Group(TRUE, DefaultLongDelaySeconds, FALSE)
       [] OTHER -> Undefined]

\* the same groups after none of them enables its plugins during startup
GroupsAllOff ==
  [k \in GroupKeys |->
     IF k \in LoadingMethod THEN [GroupsStored[k] EXCEPT !.enablePluginsDuringStartup = FALSE]
     ELSE Undefined]

\* The stored groups and groupIds of the group versions.  main.ts: no stored
\* groups, and entries without groupIds or with four indices of the default
\* groups.  part_000:304-516: stored groups, and entries whose groupIds are
\* what updatePluginSettings wrote, the name of their startup type.
GroupDisks(v) ==
  IF v = V_main
  THEN { DeviceSettings(DelayConfig(DefaultShortDelaySeconds, DefaultLongDelaySeconds,
                                    DefaultDelayBetweenPlugins),
                        dflt, types, ids, NoGroups) :
           dflt \in {None, "short"},
           types \in [Units -> {None, "instant"}],
           ids \in {NoGroupIds, <<"1", "0", "3", "3">>, <<"2", "1", "3", "3">>,
                    <<"3", "3", "3", "3">>} }
  ELSE { [DeviceSettings(DelayConfig(DefaultShortDelaySeconds, DefaultLongDelaySeconds,
                                     DefaultDelayBetweenPlugins),
                         dflt, types, NoGroupIds, groups)
            EXCEPT !.plugins = [u \in Units |->
                      [@[u] EXCEPT !.groupIds = IF types[u] = None THEN NoGroupIds
                                                ELSE <<types[u]>>]]] :
           dflt \in {None, "short"},
           types \in [Units -> {None, "disabled", "long"}],
           groups \in {GroupsStored, GroupsAllOff} }

InitGroups ==
  /\ variant \in GroupVariants
  /\ disk \in GroupDisks(variant)
  /\ settings = DefaultDeviceSettings
  /\ manifests = <<>>
  /\ enabledPlugins \in SUBSET Units
  /\ loaded \in SUBSET Units
  /\ pc = "start"
  /\ popIdx = 1
  /\ tasks = EmptyFn
  /\ timers = EmptyFn
  /\ populatedFrom = [u \in Units |-> None]
  /\ manualCount = 0
  /\ SessionIdle
  /\ OrderIdle(<<>>)

SpecGroups == InitGroups /\ [][Next]_vars

\* main.ts starts on a data.json without stored groups, whose
\* defaultStartupType is any of the loading methods or not set
InitDefaults ==
  /\ variant = V_main
  /\ \E d \in GroupDisks(V_main), dflt \in LoadingMethod \cup {None} :
       /\ d.defaultStartupType = None
       /\ d.plugins["b"].startupType = "instant"
       /\ d.plugins["b"].groupIds \in {NoGroupIds, <<"1", "0", "3", "3">>}
       /\ disk = [d EXCEPT !.defaultStartupType = dflt]
  /\ settings = DefaultDeviceSettings
  /\ manifests = <<>>
  /\ enabledPlugins \in SUBSET Units
  /\ loaded \in SUBSET Units
  /\ pc = "start"
  /\ popIdx = 1
  /\ tasks = EmptyFn
  /\ timers = EmptyFn
  /\ populatedFrom = [u \in Units |-> None]
  /\ manualCount = 0
  /\ SessionIdle
  /\ OrderIdle(<<>>)

SpecDefaults == InitDefaults /\ [][Next]_vars

\* ---------------------------------------------------------- saveLoadOrder
MaxFree == 2      \* entries whose class and loadAfter range over every value
MaxChain == 6     \* the longest chain or ring of loadAfter links

\* the extra iterations the loop allows itself: count < total + 10
LoopSlack == 10

\* plugin ids, in the key order of settings.plugins
OrderIds == <<"p1", "p2", "p3", "p4", "p5", "p6", "p7", "p8">>

\* a loadAfter that is no key of settings.plugins
Ghost == "ghost"

OrderEntry(id, st, parent) == [id |-> id, startupType |-> st, loadAfter |-> parent]

\* every settings.plugins of up to MaxFree entries
FreeConfigs ==
  UNION { { [i \in 1..n |-> OrderEntry(OrderIds[i], st[i], la[i])] :
              st \in [1..n -> LoadingMethod],
              la \in [1..n -> {None, Ghost} \cup {OrderIds[j] : j \in 1..n}] } :
          n \in 1..MaxFree }

\* the class of the entry at position i: one class for all, or the classes by
\* turns, from long down to disabled
ClassAt(pattern, i) ==
  IF pattern = "mixed" THEN LoadingMethodValues[4 - ((i - 1) % 4)] ELSE pattern

\* the loadAfter of the entry at position i of n: the next key ("up", the
\* parent comes later in key order), the previous key ("down"), or the next
\* key with the last entry loading after the first ("ring")
ParentAt(shape, i, n) ==
  CASE shape = "up" -> IF i < n THEN OrderIds[i + 1] ELSE None
    [] shape = "down" -> IF i > 1 THEN OrderIds[i - 1] ELSE None
    [] OTHER -> OrderIds[(i % n) + 1]

\* chains and rings of up to MaxChain entries
ChainConfigs ==
  UNION { { [i \in 1..n |-> OrderEntry(OrderIds[i], ClassAt(pattern, i), ParentAt(shape, i, n))] :
              pattern \in {"instant", "long", "mixed"}, shape \in {"up", "down", "ring"} } :
          n \in 1..MaxChain }

OrderConfigs == FreeConfigs \cup ChainConfigs

\* the settings page is open on a loaded plugin; the scheduler is at rest
InitOrder ==
  /\ variant = V_main
  /\ disk = DefaultDeviceSettings
  /\ settings = DefaultDeviceSettings
  /\ manifests = <<>>
  /\ enabledPlugins = {}
  /\ loaded = {}
  /\ pc = "loaded"
  /\ popIdx = 1
  /\ tasks = EmptyFn
  /\ timers = EmptyFn
  /\ populatedFrom = [u \in Units |-> None]
  /\ manualCount = 0
  /\ SessionIdle
  /\ \E ps \in OrderConfigs : OrderIdle(ps)

\* a faulty filter that hands the keys of a class out last key first
KeysOfClass_Reversed(ps, c) ==
  LET es == SelectSeq(ps, LAMBDA e : e.startupType = c)
  IN [i \in DOMAIN es |-> es[Len(es) + 1 - i].id]

\* a faulty filter that takes every key for an instant one
KeysOfClass_Any(ps, c) ==
  IF c = "instant" THEN [i \in DOMAIN ps |-> ps[i].id] ELSE <<>>

\* a faulty filter that hands every key of a class out twice
KeysOfClass_Twice(ps, c) ==
  LET es == SelectSeq(ps, LAMBDA e : e.startupType = c)
  IN [i \in 1..(2 * Len(es)) |-> es[((i - 1) % Len(es)) + 1].id]

\* Object.keys(plugins).filter(id => plugins[id].startupType === c)
KeysOfClass(ps, c) ==
  LET es == SelectSeq(ps, LAMBDA e : e.startupType = c)
  IN [i \in DOMAIN es |-> es[i].id]

\* plugins?.[id] is defined
HasEntry(id) == \E i \in DOMAIN orderPlugins : orderPlugins[i].id = id

\* plugins[id]
EntryOf(id) == orderPlugins[CHOOSE i \in DOMAIN orderPlugins : orderPlugins[i].id = id]

\* the start of saveLoadOrder: the queue of instant, short and long keys
saveLoadOrderBegin ==
  /\ orderPc = "idle"
  /\ toProcess' = KeysOfClass(orderPlugins, "instant") \o KeysOfClass(orderPlugins, "short")
                    \o KeysOfClass(orderPlugins, "long")
  /\ total' = Len(toProcess')
  /\ count' = 0
  /\ loadOrder' = <<>>
  /\ orderPc' = "loop"
  /\ UNCHANGED <<schedVars, orderPlugins, savedLoadOrder>>

\* a faulty loop test that leaves the counter out
LoopGuard_NoCount == toProcess # <<>>

\* while (toProcess.length && count < total + 10)
LoopGuard == toProcess # <<>> /\ count < total + LoopSlack

\* a faulty test that waits for a disabled parent too
Deferred_DisabledBlocks(id) ==
  /\ EntryOf(id).loadAfter # None
  /\ EntryOf(id).loadAfter \notin Range(loadOrder)

\* the test that sends a plugin to the back of the queue
Deferred(id) ==
  LET parent == EntryOf(id).loadAfter
  IN /\ parent # None
     /\ parent \notin Range(loadOrder)
     /\ ~(HasEntry(parent) /\ EntryOf(parent).startupType = "disabled")

\* one iteration of the loop
saveLoadOrderStep ==
  /\ orderPc = "loop"
  /\ LoopGuard
  /\ LET id == Head(toProcess)
     IN IF Deferred(id)
        THEN /\ toProcess' = Append(Tail(toProcess), id)
             /\ UNCHANGED loadOrder
        ELSE /\ toProcess' = Tail(toProcess)
             /\ loadOrder' = Append(loadOrder, id)
  /\ count' = count + 1
  /\ UNCHANGED <<schedVars, orderPlugins, total, orderPc, savedLoadOrder>>

\* the loop is left: settings.loadOrder = loadOrder; await saveSettings(),
\* which writes this.data as it stands
saveLoadOrderEnd ==
  /\ orderPc = "loop"
  /\ ~LoopGuard
  /\ savedLoadOrder' = loadOrder
  /\ orderPc' = "done"
  /\ disk' = settings
  /\ data' = SavedData
  /\ UNCHANGED <<variant, settings, manifests, enabledPlugins, loaded, pc, popIdx, tasks, timers,
                 populatedFrom, manualCount, isMobile, dropdowns, lastRun, desktopOnly, tab,
                 orderPlugins, toProcess, total, count, loadOrder>>

NextOrder ==
  \/ saveLoadOrderBegin
  \/ saveLoadOrderStep
  \/ saveLoadOrderEnd

SpecOrder == InitOrder /\ [][NextOrder]_vars

\* the loop is synchronous code: once entered it runs on
FairSpecOrder == SpecOrder /\ WF_vars(NextOrder)

\* ------------------------------------------------------ edits on the page
\* saveLoadOrder is a method of the settings page of main.ts; where the keys of
\* settings.plugins are units of the scheduler it reads their startupType
PageOrder ==
  /\ variant = V_main
  /\ dropdowns.state = "shown"
  /\ \A i \in DOMAIN orderPlugins :
       orderPlugins[i].id \in Units =>
         settings.plugins[orderPlugins[i].id].startupType = orderPlugins[i].startupType
  /\ NextOrder

\* The plugin starts, the settings page is opened and edited.  main.ts comes
\* with two plugins under settings.plugins of which p1 loads after p2.
InitEdit ==
  /\ variant \in {V_part001, V_groups, V_main}
  /\ disk \in (IF variant \in GroupVariants
               THEN {d \in GroupDisks(variant) :
                       /\ d.defaultStartupType = None
                       /\ variant = V_groups => d.groups = GroupsStored}
               ELSE {d \in StaggerDisks(variant) :
                       /\ d.shortDelaySeconds = DefaultShortDelaySeconds
                       /\ d.delayBetweenPlugins = DefaultDelayBetweenPlugins})
  /\ settings = DefaultDeviceSettings
  /\ manifests = <<>>
  /\ enabledPlugins \in SUBSET Units
  /\ loaded = enabledPlugins
  /\ pc = "start"
  /\ popIdx = 1
  /\ tasks = EmptyFn
  /\ timers = EmptyFn
  /\ populatedFrom = [u \in Units |-> None]
  /\ manualCount = 0
  /\ SessionIdle
  /\ OrderIdle(IF variant = V_main
               THEN <<OrderEntry("p1", "long", "p2"), OrderEntry("p2", "instant", None)>>
               ELSE <<>>)

NextEdit ==
  \/ NextStartupType
  \/ \E u \in Units, value \in LoadingMethod : DropdownChange(u, value)
  \/ \E value \in LoadingMethod : SetAll(value)
  \/ EditSaved
  \/ PageOrder

SpecEdit == InitEdit /\ [][NextEdit]_vars

\* main.ts with both units in the groups "1" and "0", unit "a" loading after
\* unit "b"; the host may be quit and started again once saveLoadOrder is not
\* in its loop
InitFrame ==
  /\ variant = V_main
  /\ disk \in {d \in GroupDisks(V_main) :
                 /\ d.defaultStartupType = None
                 /\ d.plugins["b"].startupType = "instant"
                 /\ d.plugins["b"].groupIds = <<"1", "0", "3", "3">>}
  /\ settings = DefaultDeviceSettings
  /\ manifests = <<>>
  /\ enabledPlugins \in SUBSET Units
  /\ loaded = enabledPlugins
  /\ pc = "start"
  /\ popIdx = 1
  /\ tasks = EmptyFn
  /\ timers = EmptyFn
  /\ populatedFrom = [u \in Units |-> None]
  /\ manualCount = 0
  /\ SessionIdle
  /\ \E c \in {"instant", "disabled"} :
       OrderIdle(<<OrderEntry("a", c, "b"), OrderEntry("b", "instant", None)>>)

NextFrame ==
  \/ NextStartupType
  \/ PageOrder
  \/ orderPc # "loop" /\ Restart

SpecFrame == InitFrame /\ [][NextFrame]_vars

\* ------------------------------------------------- the load-after dropdown
\* const plugins = this.lazyPlugin.settings.plugins: the entries in key order
EntriesOf(ps) ==
  LET keys == SelectSeq(KeyOrder, LAMBDA u : ps[u].startupType # None \/ ps[u].loadAfter # None)
  IN [i \in DOMAIN keys |-> OrderEntry(keys[i], ps[keys[i]].startupType, ps[keys[i]].loadAfter)]

\* the options of u's load-after dropdown: the other units of the list whose
\* startupType in this.pluginSettings is not disabled
LoadAfterOptions(u) ==
  {x \in Range(manifests) \ {u} :
     (IF tab.live THEN settings.plugins ELSE tab.plugins)[x].startupType # "disabled"}

\* u's load-after dropdown is changed to the unit parent: onChange runs
\* updatePluginSettings(plugin.id, value) up to its await of saveSettings
LoadAfterChange(u, parent) ==
  /\ variant = V_main
  /\ dropdowns.state = "shown"
  /\ dropdowns.values[u].shown
  /\ parent \in LoadAfterOptions(u)
  /\ (IF tab.live THEN settings.plugins ELSE tab.plugins)[u].loadAfter # parent
  /\ tab.edit.pc # "saving"
  /\ orderPc # "loop"
  /\ tab.edits < MaxEdits
  /\ settings' = updatePluginSettings(u, parent)
  /\ data' = WithPlugins(settings'.plugins)
  /\ tab' = [tab EXCEPT !.edits = @ + 1,
                        !.edit = [kind |-> "after", unit |-> u, value |-> parent, pc |-> "saving"]]
  /\ UNCHANGED <<orderVars, variant, disk, manifests, enabledPlugins, loaded, pc, popIdx, tasks,
                 timers, populatedFrom, manualCount, isMobile, dropdowns, lastRun, desktopOnly>>

\* saveSettings has returned to the handler of the load-after dropdown, which
\* goes on to saveLoadOrder: its queue is built from settings.plugins
LoadAfterSaved ==
  /\ tab.edit.pc = "saving"
  /\ tab.edit.kind = "after"
  /\ disk' = settings
  /\ data' = SavedData
  /\ tab' = [tab EXCEPT !.edit.pc = "done"]
  /\ orderPlugins' = EntriesOf(settings.plugins)
  /\ toProcess' = KeysOfClass(orderPlugins', "instant") \o KeysOfClass(orderPlugins', "short")
                    \o KeysOfClass(orderPlugins', "long")
  /\ total' = Len(toProcess')
  /\ count' = 0
  /\ loadOrder' = <<>>
  /\ orderPc' = "loop"
  /\ UNCHANGED <<variant, settings, manifests, enabledPlugins, loaded, pc, popIdx, tasks, timers,
                 populatedFrom, manualCount, isMobile, dropdowns, lastRun, desktopOnly,
                 savedLoadOrder>>

\* main.ts with the page of part_004 and "Enable dependencies" on.  data.json
\* holds an entry for b, which may name a as the plugin to load after, and
\* holds one for a or none; both are in the groups "1" and "0" or in none.
InitLoadAfter ==
  /\ variant = V_main
  /\ \E d \in GroupDisks(V_main), parent \in {None, "a"} :
       /\ d.defaultStartupType = None
       /\ d.plugins["b"].startupType = "instant"
       /\ d.plugins["b"].groupIds \in {NoGroupIds, <<"1", "0", "3", "3">>}
       /\ disk = [d EXCEPT !.plugins["b"].loadAfter = parent]
  /\ settings = DefaultDeviceSettings
  /\ manifests = <<>>
  /\ enabledPlugins \in SUBSET Units
  /\ loaded = enabledPlugins
  /\ pc = "start"
  /\ popIdx = 1
  /\ tasks = EmptyFn
  /\ timers = EmptyFn
  /\ populatedFrom = [u \in Units |-> None]
  /\ manualCount = 0
  /\ SessionIdle
  /\ OrderIdle(<<>>)

NextLoadAfter ==
  \/ NextStartupType
  \/ \E u \in Units, value \in LoadingMethod : DropdownChange(u, value)
  \/ \E value \in LoadingMethod : SetAll(value)
  \/ EditSaved
  \/ \E u, parent \in Units : LoadAfterChange(u, parent)
  \/ LoadAfterSaved
  \/ orderPc = "loop" /\ saveLoadOrderStep
  \/ orderPc = "loop" /\ saveLoadOrderEnd

SpecLoadAfter == InitLoadAfter /\ [][NextLoadAfter]_vars

\* ================================================================== claims
\* every host call an invocation issues from its start to its end, in order
Calls(t) == t.issued \o t.cont

\* the invocation arms a timer, at once or after its awaited call
Arms(t) == t.armed > 0 \/ t.armAfter

\* the invocations of setPluginStartup, and those of timer callbacks
StartupTasks == {i \in DOMAIN tasks : tasks[i].src = "pass"}
TimerTasks == {i \in DOMAIN tasks : tasks[i].src = "timer"}

\* the timer an invocation armed
TimerOf(i) == <<i[1], i[3]>>

\* C1: setPluginStartup for a unit whose resolved class is Disabled issues
\* exactly one disablePluginAndSave and no other host call, and arms no timer,
\* whatever the host's enabled and running flags were.
C1_DisabledOneDisable ==
  \A i \in StartupTasks :
    tasks[i].eff = "disabled" =>
      /\ Calls(tasks[i]) = <<"disablePluginAndSave">>
      /\ ~Arms(tasks[i])
      /\ TimerOf(i) \notin DOMAIN timers

\* C1 witness: two Disabled units, one enabled and running, the other neither,
\* have each completed their one call.
C1_Witness ==
  /\ variant = V_part001
  /\ \E i, j \in StartupTasks :
       /\ tasks[i].eff = "disabled" /\ tasks[i].active /\ tasks[i].running
       /\ tasks[j].eff = "disabled" /\ ~tasks[j].active /\ ~tasks[j].running
       /\ tasks[i].pc = "done" /\ tasks[j].pc = "done"
       /\ tasks[i].ndone = 1 /\ tasks[j].ndone = 1

\* C2: in part_001 and main.ts, setPluginStartup for an Instant unit (main.ts:
\* a unit whose load group has delay 0) issues exactly one enablePluginAndSave
\* when the unit is neither enabled nor running, issues no host call when it
\* is enabled or running, and never arms a timer.
C2_InstantOnlyWhenOff ==
  variant \in {V_part001, V_main} =>
    \A i \in StartupTasks :
      tasks[i].eff = "instant" =>
        /\ (~tasks[i].active /\ ~tasks[i].running =>
              Calls(tasks[i]) = <<"enablePluginAndSave">>)
        /\ (tasks[i].active \/ tasks[i].running => Calls(tasks[i]) = <<>>)
        /\ ~Arms(tasks[i])

\* C3: in part_001 and main.ts, setPluginStartup for a delayed unit that is
\* enabled but not running issues disablePluginAndSave and then enablePlugin,
\* the second only once the first has completed, and arms no timer.
C3_EnabledNotRunning ==
  variant \in {V_part001, V_main} =>
    \A i \in StartupTasks :
      tasks[i].eff = "delayed" /\ tasks[i].active /\ ~tasks[i].running =>
        /\ Calls(tasks[i]) = <<"disablePluginAndSave", "enablePlugin">>
        /\ Len(tasks[i].issued) <= tasks[i].ndone + 1
        /\ ~Arms(tasks[i])

\* the position of a unit in the list sorted by display name, counted directly
NameIndex(u) == Cardinality({v \in Units : NameRank(v) < NameRank(u)})

\* C4: where the delayed branch arms its timer without a host call (part_000,
\* part_001, main.ts), setPluginStartup for a delayed unit that is neither
\* enabled nor running issues no host call and arms exactly one timer, of
\* delay seconds * 1000 + index * stagger, the index being the unit's position
\* in the name-sorted list of all units.  With short 5, long 15 and stagger
\* 40, short unit "a" at index 0 gets 5000 and long unit "b" at index 1 15040.
C4_OneTimerStaggered ==
  HasManifests =>
    \A i \in StartupTasks :
      tasks[i].eff = "delayed" /\ ~tasks[i].active /\ ~tasks[i].running =>
        /\ Calls(tasks[i]) = <<>>
        /\ tasks[i].armed = 1 /\ ~tasks[i].armAfter
        /\ TimerOf(i) \in DOMAIN timers
        /\ LET u == tasks[i].unit
               st == tasks[i].st
               stored == settings.delayBetweenPlugins
               stagger == IF variant = V_part000 \/ stored = NotANumber THEN 40 ELSE stored
               base == IF variant = V_main THEN tasks[i].secs
                       ELSE IF st = "short" THEN settings.shortDelaySeconds
                       ELSE settings.longDelaySeconds
           IN /\ timers[TimerOf(i)].delay = base * 1000 + NameIndex(u) * stagger
              /\ (variant # V_main /\ settings.shortDelaySeconds = 5 /\ stagger = 40
                    /\ u = "a" /\ st = "short" => timers[TimerOf(i)].delay = 5000)
              /\ (variant # V_main /\ settings.longDelaySeconds = 15 /\ stagger = 40
                    /\ u = "b" /\ st = "long" => timers[TimerOf(i)].delay = 15040)

\* C4 witness: part_001 with the default delays has armed 5000 ms for short
\* unit "a" and 15040 ms for long unit "b", both neither enabled nor running.
C4_Witness ==
  /\ variant = V_part001
  /\ <<"a", "pass", 0>> \in DOMAIN tasks /\ <<"b", "pass", 0>> \in DOMAIN tasks
  /\ tasks[<<"a", "pass", 0>>].st = "short" /\ tasks[<<"b", "pass", 0>>].st = "long"
  /\ ~tasks[<<"a", "pass", 0>>].active /\ ~tasks[<<"a", "pass", 0>>].running
  /\ ~tasks[<<"b", "pass", 0>>].active /\ ~tasks[<<"b", "pass", 0>>].running
  /\ <<"a", 0>> \in DOMAIN timers /\ <<"b", 0>> \in DOMAIN timers
  /\ timers[<<"a", 0>>].delay = 5000 /\ timers[<<"b", 0>>].delay = 15040

\* C5: in part_001 and part_002, a timer's callback reads the running flag
\* when it fires: running, it issues no host call; not running, it issues
\* exactly one enablePlugin and nothing else.
C5_TimerRechecksRunning ==
  variant \in {V_part001, V_part002} =>
    \A i \in TimerTasks :
      /\ (tasks[i].running => Calls(tasks[i]) = <<>>)
      /\ (~tasks[i].running => Calls(tasks[i]) = <<"enablePlugin">>)

\* C6: in part_000 and part_001, once the plugin is unloaded no timer is left
\* pending, so no timer armed before the unload fires after it.
C6_UnloadCancelsTimers ==
  variant \in {V_part000, V_part001} =>
    (pc = "unloaded" => \A k \in DOMAIN timers : timers[k].state # "pending")

\* C7 as claimed: in part_001 and main.ts, setPluginStartup for a delayed unit
\* that is running issues no host call and arms no timer, enabled or not.
C7_RunningNoAction ==
  variant \in {V_part001, V_main} =>
    \A i \in StartupTasks :
      tasks[i].eff = "delayed" /\ tasks[i].running =>
        Calls(tasks[i]) = <<>> /\ ~Arms(tasks[i])

\* C7 amended: in part_001 and main.ts, setPluginStartup for a delayed unit
\* that is running issues no host call and arms no timer when the unit is not
\* enabled; when it is enabled too it issues disablePluginAndSave and then
\* enablePlugin, and arms no timer either.
C7_RunningNotEnabledNoAction ==
  variant \in {V_part001, V_main} =>
    \A i \in StartupTasks :
      tasks[i].eff = "delayed" /\ tasks[i].running =>
        /\ ~Arms(tasks[i])
        /\ TimerOf(i) \notin DOMAIN timers
        /\ (~tasks[i].active => Calls(tasks[i]) = <<>>)
        /\ (tasks[i].active =>
              Calls(tasks[i]) = <<"disablePluginAndSave", "enablePlugin">>)

\* C7 witness: part_001 found a delayed unit running but not enabled and left it alone.
C7_Witness ==
  /\ variant = V_part001
  /\ \E i \in StartupTasks :
       /\ tasks[i].eff = "delayed" /\ tasks[i].running /\ ~tasks[i].active
       /\ tasks[i].pc = "done" /\ tasks[i].issued = <<>>

\* the entry of unit u is being saved by setInitialPluginsConfiguration
SavingEntry(u) == pc = "saving" /\ manifests[popIdx] = u

\* C10: a unit without an entry that setInitialPluginsConfiguration found
\* enabled, with no default type set, has the type instant written to its
\* entry and, once the save has returned, to data.json; from then on
\* getPluginStartup returns instant for it, and so does the classification of
\* the startup pass, whatever the host's enabled flag has become.
C10_PopulatedInstantSticks ==
  \A u \in Units :
    populatedFrom[u] = "enabled" =>
      /\ settings.plugins[u].startupType = "instant"
      /\ getPluginStartup(u) = "instant"
      /\ (~SavingEntry(u) => disk.plugins[u].startupType = "instant")
      /\ (variant \in ClassVariants /\ <<u, "pass", 0>> \in DOMAIN tasks =>
            tasks[<<u, "pass", 0>>].st = "instant")

\* C10 witness: part_001 populated "a" as instant from the host's flag, the
\* flag was cleared out of band, and the startup pass still saw instant.
C10_Witness ==
  /\ variant = V_part001
  /\ populatedFrom["a"] = "enabled"
  /\ "a" \notin enabledPlugins
  /\ <<"a", "pass", 0>> \in DOMAIN tasks
  /\ tasks[<<"a", "pass", 0>>].st = "instant"
  /\ ~tasks[<<"a", "pass", 0>>].active
  /\ disk.plugins["a"].startupType = "instant"

\* the ids a plugin's loadAfter chain runs through, followed for n links
RECURSIVE Ancestors(_, _)
Ancestors(id, n) ==
  IF n = 0 \/ ~HasEntry(id) \/ EntryOf(id).loadAfter = None THEN {}
  ELSE {EntryOf(id).loadAfter} \cup Ancestors(EntryOf(id).loadAfter, n - 1)

\* no plugin is its own ancestor, and every loadAfter names an entry
Acyclic ==
  \A i \in DOMAIN orderPlugins :
    LET e == orderPlugins[i]
    IN /\ e.id \notin Ancestors(e.id, Len(orderPlugins))
       /\ (e.loadAfter # None => HasEntry(e.loadAfter))

\* the position of id in the saved load order, 0 when it is not there
PlaceOf(id) ==
  IF id \in Range(savedLoadOrder)
  THEN CHOOSE k \in DOMAIN savedLoadOrder : savedLoadOrder[k] = id
  ELSE 0

\* C8: when no loadAfter chain closes on itself (and every loadAfter names an
\* entry), then after saveLoadOrder every plugin A that is not disabled and
\* loads after a plugin B that is not disabled is in settings.loadOrder, and
\* so is B, before A.
C8_ParentBeforeChild ==
  orderPc = "done" /\ Acyclic =>
    \A i, j \in DOMAIN orderPlugins :
      LET A == orderPlugins[i]
          B == orderPlugins[j]
      IN A.loadAfter = B.id /\ A.startupType # "disabled" /\ B.startupType # "disabled" =>
           /\ PlaceOf(A.id) > 0
           /\ PlaceOf(B.id) > 0
           /\ PlaceOf(B.id) < PlaceOf(A.id)

\* C9: saveLoadOrder's loop runs at most total + 10 times, for every
\* settings.plugins including those whose loadAfter links form a cycle, and
\* saveLoadOrder reaches its end.
C9_LoopBounded ==
  /\ [](count <= total + LoopSlack)
  /\ <>(orderPc = "done")

\* C9 witness: two plugins that load after each other; the loop was cut off
\* after total + 10 rounds with both still queued.
C9_Witness ==
  /\ orderPc = "done"
  /\ Len(orderPlugins) = 2
  /\ orderPlugins[1].loadAfter = orderPlugins[2].id
  /\ orderPlugins[2].loadAfter = orderPlugins[1].id
  /\ total = 2
  /\ count = total + 10
  /\ Len(toProcess) = 2

\* the class configured for a unit: its entry's startupType, or on a mobile
\* device under part_000:159-302 its entry's startupMobile when that is set
ConfiguredType(u) ==
  IF variant = V_mobile /\ isMobile /\ settings.plugins[u].startupMobile # None
  THEN settings.plugins[u].startupMobile
  ELSE settings.plugins[u].startupType

\* the order of precedence the classification is to follow
ByPrecedence(configured, dflt, enabled) ==
  IF configured # None THEN configured
  ELSE IF dflt # None THEN dflt
  ELSE IF enabled THEN "instant" ELSE "disabled"

\* C11: every class getPluginStartup has returned -- to the startup pass, to
\* the settings page, and to setInitialPluginsConfiguration for a unit without
\* an entry -- is the unit's configured class when it has one, whatever the
\* default and the host's flag; without one it is the profile's default when
\* that is set, and otherwise instant for a unit the host reported enabled and
\* disabled for one it did not.
C11_ConfiguredDefaultHost ==
  /\ \A i \in StartupTasks :
       tasks[i].st = ByPrecedence(ConfiguredType(tasks[i].unit), settings.defaultStartupType,
                                  tasks[i].active)
  /\ \A u \in Units :
       dropdowns.values[u].shown =>
         dropdowns.values[u].value =
           ByPrecedence(ConfiguredType(u), settings.defaultStartupType,
                        dropdowns.values[u].enabled)
  /\ \A u \in Units :
       populatedFrom[u] # None =>
         settings.plugins[u].startupType =
           ByPrecedence(None, settings.defaultStartupType, populatedFrom[u] = "enabled")

\* C11 witness: part_001 with the default short; "a" is configured long and
\* enabled, and both the pass and the settings page got long; "b" had no entry
\* and got the default.
C11_Witness ==
  /\ variant = V_part001
  /\ settings.defaultStartupType = "short"
  /\ <<"a", "pass", 0>> \in DOMAIN tasks
  /\ tasks[<<"a", "pass", 0>>].st = "long"
  /\ tasks[<<"a", "pass", 0>>].active
  /\ dropdowns.values["a"].shown /\ dropdowns.values["a"].value = "long"
  /\ populatedFrom["b"] = "default"
  /\ dropdowns.values["b"].shown /\ dropdowns.values["b"].value = "short"

\* the unit's entry in this run's settings says disabled
ConfiguredDisabled(u) == settings.plugins[u].startupType = "disabled"

\* C12: in every run of part_001, the first or one after a restart, a unit
\* whose configured class is disabled is never started by the scheduler: its
\* call of the startup pass issues disablePluginAndSave and nothing else and
\* no timer is armed for it.  When that call returns the unit is neither
\* enabled nor running, also when the host's flag had been switched on out of
\* band before the run.
C12_DisabledStaysOff ==
  /\ [](\A i \in StartupTasks :
          ConfiguredDisabled(tasks[i].unit) =>
            /\ Calls(tasks[i]) = <<"disablePluginAndSave">>
            /\ \A k \in DOMAIN timers : timers[k].unit # tasks[i].unit
            /\ \A j \in TimerTasks : tasks[j].unit # tasks[i].unit)
  /\ [][\A i \in StartupTasks :
          /\ i \in DOMAIN tasks'
          /\ ConfiguredDisabled(tasks[i].unit)
          /\ tasks[i].pc = "await" /\ tasks'[i].pc = "done"
          => tasks[i].unit \notin enabledPlugins' /\ tasks[i].unit \notin loaded']_vars

\* C12 witness: in the first run the pass switched the disabled unit "a" off;
\* its flag was on again when the host was quit, so it was switched on out of
\* band; after the restart the pass found "a" enabled and running and its
\* call has returned with "a" off again.
C12_Witness ==
  /\ lastRun.restarts = 1
  /\ "a" \in lastRun.passDone
  /\ "a" \in lastRun.enabled
  /\ ConfiguredDisabled("a")
  /\ <<"a", "pass", 0>> \in DOMAIN tasks
  /\ tasks[<<"a", "pass", 0>>].active /\ tasks[<<"a", "pass", 0>>].running
  /\ tasks[<<"a", "pass", 0>>].pc = "done"
  /\ "a" \notin enabledPlugins /\ "a" \notin loaded

\* the units whose entry in this run's settings says short or long
DelayedUnits == {u \in Units : settings.plugins[u].startupType \in {"short", "long"}}

\* C13: in part_001, once the startup pass, its host calls and its timers are
\* all through and nothing was changed out of band during the run, no short or
\* long unit has the host's persisted flag on.  So in a run that follows such a
\* run -- the first restart, the second, and on -- the pass finds no short or
\* long unit enabled, issues no host call for it and arms its timer.
C13_DelayedFlagOff ==
  /\ (Quiescent /\ manualCount = ManualBefore =>
        \A u \in DelayedUnits : u \notin enabledPlugins)
  /\ (lastRun.restarts > 0 /\ lastRun.clean /\ manualCount = ManualBefore =>
        \A i \in StartupTasks :
          tasks[i].unit \in DelayedUnits =>
            /\ ~tasks[i].active
            /\ Calls(tasks[i]) = <<>>
            /\ TimerOf(i) \in DOMAIN timers)

\* C13 witness: the run after the second restart, both earlier runs through and
\* untouched; the short or long unit "a" was not enabled, its timer has fired
\* and started it, and its flag is still off.
C13_Witness ==
  /\ lastRun.restarts = 2
  /\ lastRun.clean
  /\ manualCount = 0
  /\ Quiescent
  /\ "a" \in DelayedUnits
  /\ <<"a", "pass", 0>> \in DOMAIN tasks /\ ~tasks[<<"a", "pass", 0>>].active
  /\ <<"a", 0>> \in DOMAIN timers /\ timers[<<"a", 0>>].state = "fired"
  /\ <<"a", "timer", 0>> \in DOMAIN tasks
  /\ tasks[<<"a", "timer", 0>>].issued = <<"enablePlugin">>
  /\ "a" \in loaded /\ "a" \notin enabledPlugins

\* the pairs of units of one delayed class whose timers the same pass armed,
\* the first before the second in the name-sorted list
ArmedPairs ==
  {p \in StartupTasks \X StartupTasks :
     /\ tasks[p[1]].eff = "delayed" /\ tasks[p[2]].eff = "delayed"
     /\ tasks[p[1]].st = tasks[p[2]].st
     /\ TimerOf(p[1]) \in DOMAIN timers /\ TimerOf(p[2]) \in DOMAIN timers
     /\ NameIndex(tasks[p[1]].unit) < NameIndex(tasks[p[2]].unit)}

\* the stagger in force: the stored delayBetweenPlugins, or 40 where it is no
\* setting (part_000) or is stored as something that is not a number
StaggerInForce ==
  IF variant = V_part000 \/ settings.delayBetweenPlugins = NotANumber THEN 40
  ELSE settings.delayBetweenPlugins

\* C14 as claimed: in part_000 and part_001, of two units of the same delayed
\* class armed in the same pass the one with the smaller list index gets the
\* strictly smaller timer delay, whatever the stagger, and at adjacent indices
\* the delays differ by exactly the stagger.
C14_StrictlyStaggered ==
  \A p \in ArmedPairs :
    /\ timers[TimerOf(p[1])].delay < timers[TimerOf(p[2])].delay
    /\ (NameIndex(tasks[p[2]].unit) = NameIndex(tasks[p[1]].unit) + 1 =>
          timers[TimerOf(p[2])].delay - timers[TimerOf(p[1])].delay = StaggerInForce)

\* C14 amended: in part_000 and part_001, of two units of the same delayed
\* class armed in the same pass the one with the smaller list index gets the
\* strictly smaller timer delay when the stagger is positive, and the same
\* delay when it is 0; at adjacent indices the delays differ by exactly the
\* stagger (40 when the stored value is not a number).
C14_StaggeredWhenPositive ==
  \A p \in ArmedPairs :
    /\ (StaggerInForce > 0 =>
          timers[TimerOf(p[1])].delay < timers[TimerOf(p[2])].delay)
    /\ (StaggerInForce = 0 =>
          timers[TimerOf(p[1])].delay = timers[TimerOf(p[2])].delay)
    /\ (NameIndex(tasks[p[2]].unit) = NameIndex(tasks[p[1]].unit) + 1 =>
          timers[TimerOf(p[2])].delay - timers[TimerOf(p[1])].delay = StaggerInForce)

\* C14 witness: part_001 with a stored stagger of 7 and a short delay of 2 s
\* has armed 2000 ms for "a" and 2007 ms for "b", both short.
C14_Witness ==
  /\ variant = V_part001
  /\ settings.delayBetweenPlugins = 7
  /\ <<<<"a", "pass", 0>>, <<"b", "pass", 0>>>> \in ArmedPairs
  /\ tasks[<<"a", "pass", 0>>].st = "short"
  /\ timers[<<"a", 0>>].delay = 2000
  /\ timers[<<"b", 0>>].delay = 2007

\* the ids of the entries that are not disabled
NotDisabledIds ==
  {orderPlugins[i].id : i \in {j \in DOMAIN orderPlugins : orderPlugins[j].startupType # "disabled"}}

\* C15: when saveLoadOrder has ended, settings.loadOrder holds every plugin
\* that is not disabled; when the loop was left with plugins still queued, it
\* is the order built so far followed by the queue, in queue order.
C15_RemainingAppended ==
  orderPc = "done" =>
    /\ NotDisabledIds \subseteq Range(savedLoadOrder)
    /\ (toProcess # <<>> => savedLoadOrder = loadOrder \o toProcess)

\* C16: when saveLoadOrder has ended, every plugin that is not disabled and
\* whose loadAfter names no entry of settings.plugins is in settings.loadOrder
\* and was never sent to the back of the queue: a plugin alone in
\* settings.plugins with such a loadAfter is placed in the loop's first round.
C16_UnknownParentIgnored ==
  orderPc = "done" =>
    \A i \in DOMAIN orderPlugins :
      LET e == orderPlugins[i]
      IN e.startupType # "disabled" /\ e.loadAfter # None /\ ~HasEntry(e.loadAfter) =>
           /\ e.id \in Range(savedLoadOrder)
           /\ (Len(orderPlugins) = 1 => count = 1)

\* the plugin at the head of the queue loads after a plugin that is disabled
HeadAfterDisabled ==
  /\ toProcess # <<>>
  /\ EntryOf(Head(toProcess)).loadAfter # None
  /\ HasEntry(EntryOf(Head(toProcess)).loadAfter)
  /\ EntryOf(EntryOf(Head(toProcess)).loadAfter).startupType = "disabled"

\* C17: a round of saveLoadOrder's loop that takes from the queue a plugin
\* whose loadAfter names a disabled plugin appends it to the load order and
\* does not put it back in the queue; such a plugin is never in the queue
\* after a round in which it was taken.
C17_DisabledParentReleases ==
  [][orderPc = "loop" /\ LoopGuard /\ HeadAfterDisabled =>
       /\ loadOrder' = Append(loadOrder, Head(toProcess))
       /\ toProcess' = Tail(toProcess)]_vars

\* C17 witness: p1 is instant and loads after the disabled p2; the loop took
\* one round and the saved order is p1 alone.
C17_Witness ==
  /\ orderPc = "done"
  /\ Len(orderPlugins) = 2
  /\ orderPlugins[1].startupType = "instant" /\ orderPlugins[1].loadAfter = "p2"
  /\ orderPlugins[2].startupType = "disabled"
  /\ total = 1 /\ count = 1
  /\ savedLoadOrder = <<"p1">>

\* the smallest startupDelaySeconds among the groups of a unit that enable
\* their plugins during startup
SmallestDelay(u) ==
  LET ds == {EnabledGroups(u)[k].startupDelaySeconds : k \in DOMAIN EnabledGroups(u)}
  IN CHOOSE d \in ds : \A e \in ds : d <= e

\* every groupId of the unit names a group, and none of them enables its
\* plugins during startup
NoGroupEnables(u) ==
  /\ \A k \in DOMAIN MappedGroups(u) : MappedGroups(u)[k].present
  /\ EnabledGroups(u) = <<>>

\* C18: in main.ts and part_000:304-516, the delay setPluginStartup works with
\* for a unit is the smallest startupDelaySeconds among the unit's groups that
\* have enablePluginsDuringStartup.
C18_SmallestDelayChosen ==
  variant \in GroupVariants =>
    \A i \in StartupTasks :
      tasks[i].eff \in {"instant", "delayed"} =>
        tasks[i].secs = SmallestDelay(tasks[i].unit)

\* C19: in main.ts and part_000:304-516, setPluginStartup for a unit none of
\* whose groups has enablePluginsDuringStartup issues disablePluginAndSave and
\* nothing else, arms no timer and does not throw.
C19_NoEnabledGroupDisables ==
  variant \in GroupVariants =>
    \A i \in StartupTasks :
      NoGroupEnables(tasks[i].unit) =>
        /\ Calls(tasks[i]) = <<"disablePluginAndSave">>
        /\ ~Arms(tasks[i])
        /\ tasks[i].pc # "threw"

\* the keys of the groups that have autoAddNewPlugins
AutoAddGroups == {k \in GroupKeys : settings.groups[k].present /\ settings.groups[k].autoAddNewPlugins}

\* C20: in main.ts and part_000:304-516, the entry setInitialPluginsConfiguration
\* has just written for a unit that had none holds as groupIds exactly the keys
\* of the groups that have autoAddNewPlugins.
C20_AutoAddGroupsAssigned ==
  variant \in GroupVariants =>
    \A u \in Units :
      SavingEntry(u) /\ populatedFrom[u] # None =>
        Range(settings.plugins[u].groupIds) = AutoAddGroups


\* the place of a class in the queue's seed: instant, short, long; 0 for disabled
ClassRank(c) ==
  CASE c = "instant" -> 1
    [] c = "short" -> 2
    [] c = "long" -> 3
    [] OTHER -> 0

\* the place of an id among the keys of settings.plugins
KeyPlace(id) == CHOOSE i \in DOMAIN orderPlugins : orderPlugins[i].id = id

\* no entry of settings.plugins has a loadAfter
NoConstraints == \A i \in DOMAIN orderPlugins : orderPlugins[i].loadAfter = None

\* C26: when no plugin has a loadAfter, the load order saveLoadOrder saves holds
\* every plugin that is not disabled exactly once, every instant plugin before
\* every short one and every short one before every long one, and the plugins
\* of one class in the key order of settings.plugins.
C26_ClassesInScanOrder ==
  orderPc = "done" /\ NoConstraints =>
    /\ Range(savedLoadOrder) = NotDisabledIds
    /\ Len(savedLoadOrder) = Cardinality(NotDisabledIds)
    /\ \A i, j \in DOMAIN savedLoadOrder :
         i < j =>
           LET a == EntryOf(savedLoadOrder[i])
               b == EntryOf(savedLoadOrder[j])
           IN \/ ClassRank(a.startupType) < ClassRank(b.startupType)
              \/ /\ a.startupType = b.startupType
                 /\ KeyPlace(a.id) < KeyPlace(b.id)

\* C26 witness: p1 is long and p2 instant, neither has a loadAfter; the saved
\* order has p2 first.
C26_Witness ==
  /\ orderPc = "done"
  /\ NoConstraints
  /\ Len(orderPlugins) = 2
  /\ orderPlugins[1].startupType = "long" /\ orderPlugins[2].startupType = "instant"
  /\ savedLoadOrder = <<"p2", "p1">>

\* C27: no plugin whose class is disabled is ever in the load order saveLoadOrder
\* builds or in the one it saves, whatever the classes and loadAfter links.
C27_NoDisabledInOrder ==
  \A id \in Range(loadOrder) \cup Range(savedLoadOrder) :
    HasEntry(id) /\ EntryOf(id).startupType # "disabled"

\* C27 witness: p1 is disabled, p2 is short and loads after p1; the saved order
\* is p2 alone.
C27_Witness ==
  /\ orderPc = "done"
  /\ Len(orderPlugins) = 2
  /\ orderPlugins[1].startupType = "disabled"
  /\ orderPlugins[2].startupType = "short" /\ orderPlugins[2].loadAfter = "p1"
  /\ savedLoadOrder = <<"p2">>


\* C29: in the versions that populate the initial configuration (part_000,
\* part_001, main.ts), while onload has not reached its forEach no invocation
\* of setPluginStartup exists and no timer is armed; when it reaches it every
\* unit of the list has an entry and data.json holds that entry.  The writes
\* are one at a time: while one save is awaited only the entry being saved
\* differs from data.json, and between saves none does.
C29_PopulatedBeforePass ==
  HasManifests =>
    /\ (pc \in {"start", "populate", "saving", "pass"} =>
          tasks = EmptyFn /\ timers = EmptyFn)
    /\ (pc = "pass" =>
          \A u \in Range(manifests) :
            /\ settings.plugins[u].startupType # None
            /\ disk.plugins[u] = settings.plugins[u])
    /\ (pc = "saving" =>
          /\ disk.plugins[manifests[popIdx]] # settings.plugins[manifests[popIdx]]
          /\ \A u \in Units \ {manifests[popIdx]} : disk.plugins[u] = settings.plugins[u])
    /\ (pc = "populate" => disk.plugins = settings.plugins)

\* C29 witness: part_001 found neither unit configured, wrote and saved both
\* entries, and only then called setPluginStartup for them.
C29_Witness ==
  /\ variant = V_part001
  /\ pc = "loaded"
  /\ populatedFrom["a"] # None /\ populatedFrom["b"] # None
  /\ disk.plugins = settings.plugins
  /\ <<"a", "pass", 0>> \in DOMAIN tasks /\ <<"b", "pass", 0>> \in DOMAIN tasks


\* the group that stands for a startup type: in part_000:304-516 the group of
\* the type's name, in main.ts the default group with the type's delay
LegacyGroup(st) ==
  IF variant = V_groups THEN st
  ELSE CASE st = "instant" -> "0"
         [] st = "short" -> "1"
         [] st = "long" -> "2"
         [] OTHER -> "3"

\* C21: in main.ts and part_000:304-516, what getPluginsGroups returned to the
\* startup pass for a unit (and stored in its entry) is the groupIds data.json
\* held for the unit when it held some, and otherwise the one group of the
\* unit's startupType; every id returned is a key of settings.groups.
C21_GroupsConfiguredOrLegacy ==
  variant \in GroupVariants /\ pc \in {"loaded", "unloaded"} =>
    \A u \in Range(manifests) :
      LET configured == disk.plugins[u].groupIds
          returned == settings.plugins[u].groupIds
      IN /\ (configured # NoGroupIds => returned = configured)
         /\ (configured = NoGroupIds =>
               returned = <<LegacyGroup(disk.plugins[u].startupType)>>)
         /\ \A k \in DOMAIN returned : settings.groups[returned[k]].present


\* the invocations of setPluginStartup whose awaited host call rejected
RejectedTasks == {i \in StartupTasks : tasks[i].pc = "rejected"}

\* C22: in part_001, when a host call awaited by one unit's setPluginStartup
\* rejects, that invocation ends there: the calls it had still to make are
\* never issued, no timer is armed for the unit, no second invocation is made
\* for it, and nothing about it changes afterwards.  Every unit of the list
\* still has its own invocation, with the calls its class and flags ask for,
\* and the rejection changes no other invocation, which go on to complete.
C22_FailureIsolated ==
  /\ [](\A i \in RejectedTasks :
          /\ Len(tasks[i].issued) = tasks[i].ndone + 1
          /\ TimerOf(i) \notin DOMAIN timers
          /\ \A j \in StartupTasks : tasks[j].unit = tasks[i].unit => j = i)
  /\ [](pc \in {"loaded", "unloaded"} =>
          \A u \in Range(manifests) :
            /\ <<u, "pass", 0>> \in DOMAIN tasks
            /\ LET t == tasks[<<u, "pass", 0>>]
               IN Calls(t) = StartupPlan(t.eff, t.active, t.running).ops)
  /\ [][\A i \in DOMAIN tasks :
          /\ (tasks[i].pc = "rejected" => tasks'[i] = tasks[i])
          /\ (tasks[i].pc = "await" /\ tasks'[i].pc = "rejected" =>
                \A j \in DOMAIN tasks \ {i} : tasks'[j] = tasks[j])]_vars

\* C22 witness: "a" is delayed and was enabled; its disablePluginAndSave
\* rejected, so its enablePlugin was never issued; the call of "b" has been
\* issued and has completed all the same.
C22_Witness ==
  /\ <<"a", "pass", 0>> \in RejectedTasks
  /\ tasks[<<"a", "pass", 0>>].issued = <<"disablePluginAndSave">>
  /\ tasks[<<"a", "pass", 0>>].cont = <<"enablePlugin">>
  /\ <<"b", "pass", 0>> \in DOMAIN tasks
  /\ tasks[<<"b", "pass", 0>>].pc = "done"
  /\ tasks[<<"b", "pass", 0>>].ndone = 1


\* C23: on a mobile device no invocation of the scheduler -- of the startup
\* pass, of a timer, or of onunload -- issues a host call for a desktop-only
\* unit or arms a timer for it, and no timer for such a unit exists.
C23_DesktopOnlyLeftAlone ==
  isMobile =>
    \A u \in desktopOnly :
      /\ \A i \in DOMAIN tasks :
           tasks[i].unit = u => Calls(tasks[i]) = <<>> /\ ~Arms(tasks[i])
      /\ \A k \in DOMAIN timers : timers[k].unit # u


\* C24: on a mobile device with dualConfigs on and no mobile profile in
\* data.json, loadSettings leaves this.settings equal to the desktop profile
\* and working as the active profile; an entry that is then written for a unit
\* in the mobile profile is not written to the desktop profile, in memory or in
\* data.json: a unit without a desktop entry still has none there.
C24_CopyIsIndependent ==
  ActiveMobile /\ data.copied =>
    /\ (pc = "populate" /\ popIdx = 1 => settings = data.desktop)
    /\ \A u \in Units :
         populatedFrom[u] # None =>
           /\ settings.plugins[u].startupType # None
           /\ data.desktop.plugins[u].startupType = None
           /\ data.stored.plugins[u].startupType = None


\* C25: when the handler of a plugin's dropdown has run updatePluginSettings
\* for the chosen class and its save has returned, getPluginStartup returns
\* the chosen class for the plugin and data.json holds it as the plugin's
\* startupType, whatever the plugin's class was before.
C25_ChosenClassReadBack ==
  tab.edit.kind = "one" /\ tab.edit.pc = "done" =>
    /\ getPluginStartup(tab.edit.unit) = tab.edit.value
    /\ disk.plugins[tab.edit.unit].startupType = tab.edit.value

\* C28: a step of saveLoadOrder issues no host call, arms and clears no timer,
\* and leaves every entry's startupType and loadAfter as they were, in
\* settings.plugins and in this.settings; and whatever settings.loadOrder has
\* come to hold, every timer is armed with seconds * 1000 + index * stagger,
\* the index being the unit's place in the name-sorted list.
C28_OnlyLoadOrderChanges ==
  /\ [][orderVars' # orderVars =>
          UNCHANGED <<settings, orderPlugins, enabledPlugins, loaded, tasks, timers, manifests>>]_vars
  /\ [](\A k \in DOMAIN timers :
          timers[k].delay = timers[k].secs * 1000 + NameIndex(timers[k].unit) * StaggerInForce)

\* C28 witness: saveLoadOrder saved the order b, a; the host was started again
\* and the startup pass armed timers for both units, a's 40 ms before b's.
C28_Witness ==
  /\ savedLoadOrder = <<"b", "a">>
  /\ lastRun.restarts = 1
  /\ <<"a", 0>> \in DOMAIN timers /\ <<"b", 0>> \in DOMAIN timers
  /\ timers[<<"a", 0>>].secs = timers[<<"b", 0>>].secs
  /\ timers[<<"b", 0>>].delay = timers[<<"a", 0>>].delay + 40

\* C30: when the "set all plugins" dropdown of a page that display() has built
\* has been changed and its save has returned, data.json holds the chosen class
\* as the startupType of every unit of the list and getPluginStartup returns
\* it for every one of them.
C30_BulkEditTakesEffect ==
  tab.edit.kind = "all" /\ tab.edit.pc = "done" =>
    \A u \in Range(manifests) :
      /\ disk.plugins[u].startupType = tab.edit.value
      /\ getPluginStartup(u) = tab.edit.value


\* the enable calls, transient or persisted, issued for unit u so far
EnablesIssued(u) ==
  LET n[S \in SUBSET DOMAIN tasks] ==
        IF S = {} THEN 0
        ELSE LET i == CHOOSE i \in S : TRUE
                 t == tasks[i]
                 own == IF t.unit = u
                        THEN Len(SelectSeq(t.issued,
                                           LAMBDA op : op \in {"enablePlugin", "enablePluginAndSave"}))
                        ELSE 0
             IN own + n[S \ {i}]
  IN n[DOMAIN tasks]

\* the handler of u's dropdown has called setPluginStartup for the class
\* disabled, which issued disablePluginAndSave
DisabledByEdit(u) ==
  \E i \in DOMAIN tasks :
    /\ i[1] = u /\ i[2] = "edit"
    /\ tasks[i].eff = "disabled"
    /\ "disablePluginAndSave" \in Range(tasks[i].issued)

\* C31: once a unit's class has been changed to disabled on the settings page
\* and setPluginStartup has issued the disablePluginAndSave that follows, no
\* enablePlugin and no enablePluginAndSave is issued for the unit for the rest
\* of the session, whether or not a timer armed for it earlier is still pending.
C31_NoEnableAfterDisabled ==
  [][\A u \in Units : DisabledByEdit(u) => EnablesIssued(u)' = EnablesIssued(u)]_vars


\* the invocations whose awaited call is an enable for unit u
EnablesInFlight(u) ==
  {i \in DOMAIN tasks :
     /\ tasks[i].unit = u
     /\ tasks[i].pc = "await"
     /\ tasks[i].issued[Len(tasks[i].issued)] \in {"enablePlugin", "enablePluginAndSave"}}

\* C32: at no moment are two enable calls (enablePlugin or enablePluginAndSave)
\* for the same unit awaited at once, however the startup pass, the calls of
\* setPluginStartup from the settings page and the timer callbacks interleave.
C32_OneEnableInFlight ==
  \A u \in Units : Cardinality(EnablesInFlight(u)) <= 1


\* the timers armed for unit u that have neither fired nor been cleared
PendingTimers(u) == {k \in DOMAIN timers : timers[k].unit = u /\ timers[k].state = "pending"}

\* C33: at every moment at most one timer is pending for a unit, also after
\* the settings page has called setPluginStartup for a unit whose timer from
\* the startup pass has not fired yet.
C33_OnePendingTimer ==
  \A u \in Units : Cardinality(PendingTimers(u)) <= 1


\* C34: when the handler of a unit's dropdown changes the unit's startupType
\* with updatePluginSettings, the unit's entry keeps the loadAfter and the
\* groupIds it had.
C34_OtherFieldsKept ==
  [][tab'.edits = tab.edits + 1 /\ tab'.edit.kind = "one" =>
       LET u == tab'.edit.unit
       IN /\ settings'.plugins[u].loadAfter = settings.plugins[u].loadAfter
          /\ settings'.plugins[u].groupIds = settings.plugins[u].groupIds]_vars


\* C35: when the handler of a unit's load-after dropdown has stored the chosen
\* parent and returned from its save, the unit's entry holds the parent as its
\* loadAfter and the startupType it had (the one its dropdown shows); and when
\* the saveLoadOrder that follows has ended, with neither of the two disabled,
\* settings.loadOrder holds the parent before the unit.
C35_ParentStored ==
  tab.edit.kind = "after" /\ tab.edit.pc = "done" =>
    LET u == tab.edit.unit
        parent == tab.edit.value
    IN /\ settings.plugins[u].loadAfter = parent
       /\ settings.plugins[u].startupType = dropdowns.values[u].value
       /\ (/\ orderPc = "done"
           /\ dropdowns.values[u].value # "disabled"
           /\ settings.plugins[parent].startupType # "disabled"
           => /\ PlaceOf(parent) > 0
              /\ PlaceOf(parent) < PlaceOf(u))


\* no id is at two places of the sequence
NoRepeat(s) == \A i, j \in DOMAIN s : s[i] = s[j] => i = j

\* C36: the order saveLoadOrder builds, and the one it saves, holds no id
\* twice, and every id in it is a key of settings.plugins whose startupType is
\* instant, short or long, for every settings.plugins including those whose
\* loadAfter links close on themselves.
C36_OrderOfDistinctLoadable ==
  \A s \in {loadOrder, savedLoadOrder} :
    /\ NoRepeat(s)
    /\ \A k \in DOMAIN s :
         /\ HasEntry(s[k])
         /\ EntryOf(s[k]).startupType \in {"instant", "short", "long"}

\* C36 witness: of two plugins the first loads after itself; saveLoadOrder gave
\* up on it after total + 10 rounds and saved the second alone.
C36_Witness ==
  /\ orderPc = "done"
  /\ Len(orderPlugins) = 2
  /\ orderPlugins[1].loadAfter = orderPlugins[1].id
  /\ orderPlugins[1].startupType = "short"
  /\ orderPlugins[2].startupType = "long"
  /\ savedLoadOrder = <<orderPlugins[2].id>>
  /\ toProcess = <<orderPlugins[1].id>>


\* the default group of a loading method: createDefaultGroups builds them in
\* the order instant, short, long, disabled
DefaultGroupOf(c) ==
  CASE c = "instant" -> "0" [] c = "short" -> "1" [] c = "long" -> "2" [] OTHER -> "3"

\* C37: once loadSettings has put the four default groups into settings.groups,
\* autoAddNewPlugins is true for the group of the profile's defaultStartupType
\* and for no other, and for none when no defaultStartupType is set.
C37_AutoAddFollowsDefault ==
  variant = V_main /\ pc # "start" =>
    \A c \in LoadingMethod :
      settings.groups[DefaultGroupOf(c)].autoAddNewPlugins <=> settings.defaultStartupType = c


\* the invocations of onunload's loop body
UnloadTasks == {i \in DOMAIN tasks : tasks[i].src = "unload"}

\* C38: in the versions that define onunload, once the plugin is unloaded no
\* timer is pending; onunload's calls for a unit are disablePlugin and then
\* enablePluginAndSave, the second only once the first has completed, and are
\* issued only for units whose configured class is short or long; and when the
\* loop has ended every unit whose configured class is short or long has had them.
C38_UnloadRestoresDelayed ==
  HasOnunload /\ pc = "unloaded" =>
    /\ \A k \in DOMAIN timers : timers[k].state # "pending"
    /\ \A i \in UnloadTasks :
         /\ ConfiguredType(tasks[i].unit) \in {"short", "long"}
         /\ tasks[i].issued \o tasks[i].cont = <<"disablePlugin", "enablePluginAndSave">>
         /\ Len(tasks[i].issued) <= tasks[i].ndone + 1
    /\ ((\A i \in UnloadTasks : tasks[i].pc = "done") =>
          \A u \in Units :
            ConfiguredType(u) \in {"short", "long"} => <<u, "unload", 0>> \in UnloadTasks)

====
